---- MODULE Spec2Model ----
\* Model of the antarcticom server core: token verifier with cache
\* (api.rs, auth.rs), snowflake generator (models.rs), realtime gateway
\* (api.rs handle_ws), voice registry (api.rs voice handlers) and SFU (voice.rs).
EXTENDS Integers, Sequences, FiniteSets, TLC

\* ------------------------------------------------------------------------
\* Model bounds
\* ------------------------------------------------------------------------

\* Clock ticks per second of the token clock (Instant has sub-second
\* resolution; Duration::as_secs truncates).
TicksPerSec == 2

\* Last second of the token clock.
MaxSecs == 62

\* Last tick of the token clock.
MaxNow == MaxSecs * TicksPerSec

\* Last millisecond (since the custom epoch) of the snowflake clock.
MaxMs == 1

\* Number of next_id() calls explored.
MaxCalls == 4100

\* Number of peer connections the SFU creates.
MaxPcs == 3

\* Number of local tracks the SFU creates.
MaxTracks == 3

\* Number of offer frames one connection sends.
MaxOffers == 2

\* Number of REST requests explored against the store.
MaxOps == 3

\* Number of messages sent while one client does not read its socket.
MailboxRun == 258

\* Largest permission mask explored (all seven named bits).
MaxMask == 127

\* Number of channels created by create_channel requests.
MaxNewChannels == 2

\* Longest message content handed to sanitize_content, in characters.
MaxLen == 5

\* Most fragments a message content handed to parse_mentions is made of.
MaxPieces == 4

\* ------------------------------------------------------------------------
\* Program constants
\* ------------------------------------------------------------------------

TOKEN_CACHE_TTL_SECS == 60

\* AppState::new builds SnowflakeGenerator::new(1).
WORKER_ID == 1

\* next_id: sequence.fetch_add(1) & 0xFFF
SEQ_MASK == 4095

\* SnowflakeGenerator::new: worker_id & 0x3FF
WORKER_MASK == 1023

\* AtomicU16 wraps modulo 2^16.
U16_MOD == 65536

\* broadcast::channel::<String>(256), api.rs:1208.
MAILBOX_CAPACITY == 256

\* Code of the Close frame sent to a rejected socket, api.rs:1182.
CLOSE_CODE == 1000

\* Permissions, models.rs:191-197.
MANAGE_CHANNELS == 1

MANAGE_SERVER == 2

KICK_MEMBERS == 4

BAN_MEMBERS == 8

SEND_MESSAGES == 16

ADMINISTRATOR == 32

MANAGE_MESSAGES == 64

\* ------------------------------------------------------------------------
\* Values
\* ------------------------------------------------------------------------

Users == {"u1", "u2"}

\* Gateway sockets accepted by ws_upgrade; each is handled by one handle_ws.
Conns == {"k1", "k2"}

\* Channel ids (text and voice channels share the id space).
Channels == {"c1", "c2"}

\* Order in which the maps keyed by channel id are iterated.
ChanOrder == <<"c1", "c2">>

\* servers table, in ORDER BY name.
ServerOrder == <<"s1", "s2">>

Servers == {"s1", "s2"}

\* channels table: the channels of a server, in ORDER BY position.
ServerChannels(s) == IF s = "s1" THEN <<"c1">> ELSE <<"c2">>

\* members table at start: u1 is a member of s1, u2 of s1 and s2.
InitialMembers == [s \in Servers |-> IF s = "s1" THEN {"u1", "u2"} ELSE {"u2"}]

\* channels.server_id: the server a channel belongs to.
ServerOf(c) == IF c = "c1" THEN "s1" ELSE "s2"

\* The sentinel owner 00000000-0000-7000-8000-000000000000 of an unclaimed
\* default server, api.rs:732.
SYSTEM_OWNER == "system"

\* In-flight POST /api/servers/:id/join requests.
JoinReqs == {"j1", "j2"}

\* HTTP requests to POST /api/voice/:channel_id/join or .../leave.
Reqs == {"r1", "r2"}

\* The authenticated caller of a voice request (AuthUser).
ReqUser(r) == "u1"

\* The channels clients send SFU offers for.
OfferChannels == {"c2"}

\* Track ids chosen by clients (TrackRemote::id()).
TrackLabels == {"audio", "mic"}

\* A voice participant whose gateway connection is not among Conns.
Guest == "u3"

\* The user ids the SFU sees.
SfuUsers == Users \cup {Guest}

PcIds == 1..MaxPcs

TrackIds == 1..MaxTracks

None == "none"

\* Tokens presented to the verifier.  tok_u1/tok_u2 are RS256 tokens signed
\* by the hub key for u1/u2; tok_forged has a bad signature; tok_badsub is
\* validly signed but its sub claim is not a UUID.
Tokens == {"tok_u1", "tok_u2", "tok_forged", "tok_badsub"}

TokenSigOk(t) == t \in {"tok_u1", "tok_u2", "tok_badsub"}

TokenSubOk(t) == t \in {"tok_u1", "tok_u2", "tok_forged"}

TokenUser(t) == IF t = "tok_u1" THEN "u1" ELSE IF t = "tok_u2" THEN "u2" ELSE None

\* exp claim of a token, in seconds of the token clock: tok_u2 expires while
\* the clock runs, the others do not.
TokenExp(t) == IF t = "tok_u2" THEN 5 ELSE 1000

Modes == {"standalone", "community"}

\* What GET {hub}/api/auth/public-key does at the moment of a request:
\* "ok" answers 2xx with the hub's PEM, "unreachable" is a transport error or
\* the 10 s timeout, "non2xx" an error status, "malformed" a body that is not
\* a PublicKeyResponse.
HubStates == {"ok", "unreachable", "non2xx", "malformed"}

HUB_PEM == "hub_pem"

\* The tokens the client of a gateway socket may present in Identify.
ConnTokens(k) == IF k = "k1" THEN {"tok_u1", "tok_forged"} ELSE {"tok_u1", "tok_u2"}

VARIABLES
    \* --- token verifier (AppState) ---
    mode,             \* config.mode
    hub_url_empty,    \* config.identity.auth_hub_url.is_empty()
    hub,              \* current behaviour of the auth hub endpoint
    hub_public_key,   \* AppState.hub_public_key: None or the cached PEM
    token_cache,      \* AppState.token_cache: token -> NoEntry or [present, user, at]
    clock,            \* Instant::now(), in ticks
    last_validate,    \* the call of validate_token_federated that has just returned
    \* --- snowflake generator ---
    sf_sequence,      \* SnowflakeGenerator.sequence (AtomicU16)
    sf_now,           \* SystemTime::now() in ms since the custom epoch
    sf_calls,         \* number of next_id() calls made
    sf_first,         \* id returned by the first call
    sf_prev,          \* id returned by the call before the latest
    sf_last,          \* id returned by the latest call
    \* --- store ---
    members,          \* members table: server -> set of users
    owner,            \* servers.owner_id
    bans,             \* bans table: server -> set of users
    messages,         \* messages table: set of [id, ch, author]
    role_mask,        \* <<server, user>> -> OR of the member's role masks
    new_channels,     \* channels table: the rows [id, server] added by create_channel
    \* --- REST handlers ---
    http,             \* the request that has just been answered
    jn,               \* join_server requests: [pc, user, server]
    \* --- observation ---
    watch,            \* the event types whose enqueueing the mailboxes record
    budget,           \* number of REST requests clients still make
    wire,             \* the text frames the forwarder has written to each socket
    \* --- gateway (handle_ws), per connection ---
    pc,               \* position of handle_ws
    conn_user,        \* user_id
    subscribed_channels, \* the local Vec subscribed_channels
    close_reason,     \* the Close frame sent in UNAUTH: [code, reason]
    offer_ch,         \* channel of the handle_offer call awaiting its peer connection
    offer_orphan,     \* that call's SfuChannel has been removed from the map meanwhile
    offers,           \* number of offer frames the connection has sent
    sfu_visited,      \* channels the cleanup loop over sfu.channels has visited
    stuck_on,         \* channel whose map shard the cleanup loop is parked on
    offline_calls,    \* broadcast_to_channel calls of the final offline fan-out
    undisturbed,      \* no operation re-added the user since this connection disconnected
    mailbox,          \* events sent into the connection's broadcast channel
    \* --- registries (AppState) ---
    ws_sessions,      \* user -> connection whose Sender is stored
    channel_subs,     \* channel -> Vec of users
    presence,         \* PresenceManager.statuses
    typing,           \* PresenceManager.typing: channel -> [present, map of user -> Instant]
    last_typed,       \* every (channel, user) set_typing was called for: first and latest call
    voice_states,     \* channel -> [present, parts]
    vj,               \* voice_join / voice_leave requests: [pc, kind, user, ch]
    \* --- SFU (SfuServer) ---
    sfu_channels,     \* channel -> [present, users]
    sfu_user,         \* <<channel, user>> -> SfuUser [pc, my_track, subscribed]
    next_pc,          \* next peer connection to create
    pc_open,          \* the peer connections not yet closed
    pc_tracks,        \* peer connection -> local tracks added with add_track
    tracks            \* the TrackLocalStaticRTP created so far: [label, owner, pc]

tokenVars == <<mode, hub_url_empty, hub, hub_public_key, token_cache, clock,
               last_validate>>

sfVars == <<sf_sequence, sf_now, sf_calls, sf_first, sf_prev, sf_last>>

dbVars == <<members, owner, bans, messages, role_mask, new_channels>>

restVars == <<http, jn>>

obsVars == <<watch, budget, wire>>

connVars == <<pc, conn_user, subscribed_channels, close_reason, offer_ch, offer_orphan,
              offers, sfu_visited, stuck_on, offline_calls, undisturbed>>

typingVars == <<typing, last_typed>>

regVars == <<ws_sessions, channel_subs, presence, mailbox, typingVars>>

voiceVars == <<voice_states, vj>>

sfuVars == <<sfu_channels, sfu_user, next_pc, pc_open, pc_tracks, tracks>>

gwVars == <<dbVars, restVars, obsVars, connVars, regVars, voiceVars, sfuVars>>

vars == <<tokenVars, sfVars, gwVars>>

\* ------------------------------------------------------------------------
\* Token verifier
\* ------------------------------------------------------------------------

\* An absent token_cache entry.
NoEntry == [present |-> FALSE, user |-> None, at |-> 0]

\* last_validate when no call has just returned.  elapsed is the time, in
\* ticks, between the writing of the token's cache entry and the call (-1
\* when the call found no entry); verified tells whether the call reached
\* auth::validate_token / auth::validate_token_with_public_key.
NoResult == [token |-> None, outcome |-> None, user |-> None,
             verified |-> FALSE, fetched |-> FALSE, cached |-> FALSE, elapsed |-> -1]

InitToken ==
    /\ mode \in Modes
    /\ hub_url_empty \in (IF mode = "community" THEN BOOLEAN ELSE {FALSE})
    /\ hub \in (IF mode = "community" /\ ~hub_url_empty THEN HubStates ELSE {"ok"})
    /\ hub_public_key = None
    /\ token_cache = [t \in Tokens |-> NoEntry]
    /\ clock = 0
    /\ last_validate = NoResult

\* cached_at.elapsed().as_secs()
ElapsedSecs(at) == (clock - at) \div TicksPerSec

NowSecs == clock \div TicksPerSec

\* Faulty variant of CacheHit: the comparison with the TTL is inclusive.
CacheHitMutLe(t) ==
    /\ token_cache[t].present
    /\ ElapsedSecs(token_cache[t].at) <= TOKEN_CACHE_TTL_SECS

\* api.rs:139-147: a cache entry younger than the TTL answers the call.
CacheHit(t) ==
    /\ token_cache[t].present
    /\ ElapsedSecs(token_cache[t].at) < TOKEN_CACHE_TTL_SECS

\* jsonwebtoken decode with validate_exp: signature and expiry.
DecodeOk(t) == TokenSigOk(t) /\ TokenExp(t) >= NowSecs

\* auth::validate_token_with_public_key / auth::validate_token followed by
\* auth::user_id_from_claims, given a readable PEM `pem`.
VerifyOutcome(t, pem) ==
    IF pem # HUB_PEM THEN "Internal"
    ELSE IF ~DecodeOk(t) THEN "Unauthorized"
    ELSE IF ~TokenSubOk(t) THEN "Internal"
    ELSE "Ok"

\* Faulty variant of FetchedKey: the status of the hub's response is not checked.
FetchedKeyMutNoStatus ==
    IF hub_url_empty THEN None ELSE IF hub \in {"ok", "non2xx"} THEN HUB_PEM ELSE None

\* api.rs:159-199: the PEM the hub request yields, None when auth_hub_url is
\* empty, the request fails, the status is not 2xx or the body does not parse.
FetchedKey == IF hub_url_empty THEN None ELSE IF hub = "ok" THEN HUB_PEM ELSE None

\* Whether the community branch issues a request to the hub.
IssuesRequest == hub_public_key = None /\ ~hub_url_empty

\* Faulty variant of HubKey: the cached key is ignored and the hub is asked
\* on every call.
HubKeyMutRefetch == FetchedKey

\* api.rs:152-200: the PEM the community branch verifies with, the cached
\* key when there is one, else the key the hub request yields.
HubKey == IF hub_public_key # None THEN hub_public_key ELSE FetchedKey

\* validate_token_federated(token), api.rs:137-223.  keyfile is the result of
\* std::fs::read(jwt_public_key_path) in the local branch.
ValidateTokenFederated(t, keyfile) ==
    /\ clock <= MaxNow
    /\ IF CacheHit(t)
       THEN /\ last_validate' = [token |-> t, outcome |-> "Ok",
                                 user |-> token_cache[t].user, verified |-> FALSE,
                                 fetched |-> FALSE, cached |-> TRUE,
                                 elapsed |-> clock - token_cache[t].at]
            /\ UNCHANGED <<token_cache, hub_public_key>>
       ELSE LET evicted == [token_cache EXCEPT ![t] = NoEntry]
                key == IF mode = "community" THEN HubKey ELSE keyfile
                fetched == mode = "community" /\ IssuesRequest
                reached == IF mode = "community" THEN key # None ELSE TRUE
                outcome == IF key = None THEN "Internal" ELSE VerifyOutcome(t, key)
            IN  /\ hub_public_key' = IF mode = "community" /\ key # None
                                     THEN key ELSE hub_public_key
                /\ token_cache' = IF outcome = "Ok"
                                  THEN [evicted EXCEPT ![t] = [present |-> TRUE, user |-> TokenUser(t), at |-> clock]]
                                  ELSE evicted
                /\ last_validate' = [token |-> t, outcome |-> outcome,
                                     user |-> IF outcome = "Ok" THEN TokenUser(t) ELSE None,
                                     verified |-> reached,
                                     fetched |-> fetched, cached |-> FALSE,
                                     elapsed |-> IF token_cache[t].present
                                                 THEN clock - token_cache[t].at ELSE -1]
    /\ UNCHANGED <<mode, hub_url_empty, hub, clock>>

Validate ==
    /\ \E t \in {"tok_u1", "tok_forged", "tok_badsub"} :
         \E keyfile \in {HUB_PEM, None} : ValidateTokenFederated(t, keyfile)
    /\ UNCHANGED <<sfVars, gwVars>>

\* Time passes.
Tick ==
    /\ clock < MaxNow
    /\ clock' = clock + 1
    /\ last_validate' = NoResult
    /\ UNCHANGED <<mode, hub_url_empty, hub, hub_public_key, token_cache>>
    /\ UNCHANGED <<sfVars, gwVars>>

\* The hub goes down, comes back or misbehaves.
HubChange ==
    /\ mode = "community"
    /\ ~hub_url_empty
    /\ \E h \in HubStates \ {hub} : hub' = h
    /\ UNCHANGED <<mode, hub_url_empty, hub_public_key, token_cache, clock,
                   last_validate>>
    /\ UNCHANGED <<sfVars, gwVars>>

\* ------------------------------------------------------------------------
\* Snowflake generator (models.rs)
\* ------------------------------------------------------------------------

InitSnowflake ==
    /\ sf_sequence = 0
    /\ sf_now = 0
    /\ sf_calls = 0
    /\ sf_first = -1
    /\ sf_prev = -1
    /\ sf_last = -1

RECURSIVE BitAnd(_, _)
BitAnd(a, b) ==
    IF a = 0 \/ b = 0 THEN 0
    ELSE (a % 2) * (b % 2) + 2 * BitAnd(a \div 2, b \div 2)

RECURSIVE BitOr(_, _)
BitOr(a, b) ==
    IF a = 0 THEN b
    ELSE IF b = 0 THEN a
    ELSE (IF a % 2 = 1 \/ b % 2 = 1 THEN 1 ELSE 0) + 2 * BitOr(a \div 2, b \div 2)

RECURSIVE Shl(_, _)
Shl(a, n) == IF n = 0 THEN a ELSE Shl(2 * a, n - 1)

\* SnowflakeGenerator::new: worker_id & 0x3FF
WorkerId == BitAnd(WORKER_ID, WORKER_MASK)

\* The id next_id() builds from the timestamp and the fetched sequence value.
MakeId(timestamp, fetched) ==
    BitOr(BitOr(Shl(timestamp, 22), Shl(WorkerId, 12)), BitAnd(fetched, SEQ_MASK))

\* A call of next_id(), models.rs:290-300, which returns
\* MakeId(sf_now, sf_sequence).
MintId ==
    /\ sf_calls < MaxCalls
    /\ sf_sequence' = (sf_sequence + 1) % U16_MOD
    /\ sf_last' = MakeId(sf_now, sf_sequence)
    /\ sf_prev' = sf_last
    /\ sf_first' = IF sf_calls = 0 THEN MakeId(sf_now, sf_sequence) ELSE sf_first
    /\ sf_calls' = sf_calls + 1
    /\ UNCHANGED sf_now

NextId == MintId /\ UNCHANGED <<tokenVars, gwVars>>

\* The wall clock advances by a millisecond.
SfTick ==
    /\ sf_now < MaxMs
    /\ sf_now' = sf_now + 1
    /\ UNCHANGED <<sf_sequence, sf_calls, sf_first, sf_prev, sf_last>>
    /\ UNCHANGED <<tokenVars, gwVars>>

\* ------------------------------------------------------------------------
\* Registries and fan-out (api.rs AppState)
\* ------------------------------------------------------------------------

EventTypes == {"PresenceUpdate", "VoiceStateUpdate", "WebRTCSignal", "MessageCreate",
               "MessageDelete", "MemberJoin", "MemberLeave", "ServerUpdate",
               "ChannelCreate"}

\* http when no request has just been answered.  casts is the number of
\* broadcast calls the handler made.
NoHttp == [op |-> None, user |-> None, arg |-> None, status |-> None, casts |-> 0]

NoJn == [pc |-> "idle", user |-> None, server |-> None]

NoSfuUser == [pc |-> 0, my_track |-> 0, subscribed |-> <<>>]

NoJoin == [pc |-> "idle", kind |-> None, user |-> None, ch |-> None]

\* The store as the gateway specifications find it: u2 owns both servers,
\* nobody is banned, no message is stored.  On s1, u1 holds a moderator role
\* (KICK_MEMBERS | BAN_MEMBERS) and u2 a role with MANAGE_MESSAGES.
InitDb ==
    /\ members = InitialMembers
    /\ owner = [s \in Servers |-> "u2"]
    /\ bans = [s \in Servers |-> {}]
    /\ messages = {}
    /\ new_channels = {}
    /\ role_mask = [x \in Servers \X Users |->
                       IF x = <<"s1", "u1">> THEN KICK_MEMBERS + BAN_MEMBERS
                       ELSE IF x = <<"s1", "u2">> THEN MANAGE_MESSAGES ELSE 0]

\* AppState::new and the handlers before any socket.
InitConnections ==
    /\ jn = [j \in JoinReqs |-> NoJn]
    /\ pc = [k \in Conns |-> "unauth"]
    /\ conn_user = [k \in Conns |-> None]
    /\ subscribed_channels = [k \in Conns |-> <<>>]
    /\ close_reason = [k \in Conns |-> [code |-> 0, reason |-> None]]
    /\ offer_ch = [k \in Conns |-> None]
    /\ offer_orphan = [k \in Conns |-> FALSE]
    /\ offers = [k \in Conns |-> 0]
    /\ sfu_visited = [k \in Conns |-> {}]
    /\ stuck_on = [k \in Conns |-> None]
    /\ offline_calls = [k \in Conns |-> <<>>]
    /\ undisturbed = [k \in Conns |-> TRUE]
    /\ mailbox = [k \in Conns |-> <<>>]
    /\ wire = [k \in Conns |-> <<>>]
    /\ ws_sessions = [u \in Users |-> None]
    /\ channel_subs = [c \in Channels |-> <<>>]
    /\ presence = [u \in Users |-> "offline"]
    /\ typing = [c \in Channels |-> [present |-> FALSE, map |-> {}]]
    /\ last_typed = {}
    /\ voice_states = [c \in Channels |-> [present |-> FALSE, parts |-> <<>>]]
    /\ vj = [r \in Reqs |-> NoJoin]
    /\ pc_tracks = [p \in PcIds |-> {}]

\* No request has been answered.
InitSessions == http = NoHttp /\ InitConnections

\* SfuServer::new, voice.rs:37-56: no channel, no peer connection.
InitSfuServer ==
    /\ sfu_channels = [c \in Channels |-> [present |-> FALSE, users |-> {}]]
    /\ sfu_user = [x \in Channels \X SfuUsers |-> NoSfuUser]
    /\ next_pc = 1
    /\ pc_open = {}
    /\ tracks = <<>>

InitGateway == InitDb /\ InitSessions /\ InitSfuServer /\ budget = 0

InSeq(seq, x) == \E i \in 1..Len(seq) : seq[i] = x

\* Vec::retain(|id| id != x)
Retain(seq, x) == SelectSeq(seq, LAMBDA y : y # x)

PresenceUpdate(u, status) ==
    [type |-> "PresenceUpdate", user |-> u, ch |-> None, val |-> status, id |-> 0]

VoiceStateUpdate(chan, u, joined) ==
    [type |-> "VoiceStateUpdate", user |-> u, ch |-> chan,
     val |-> IF joined THEN "joined" ELSE "left", id |-> 0]

Answer(chan, u) ==
    [type |-> "WebRTCSignal", user |-> u, ch |-> chan, val |-> "answer", id |-> 0]

\* WsEvent::MessageCreate(message).
MessageCreate(m) ==
    [type |-> "MessageCreate", user |-> m.author, ch |-> m.ch, val |-> "created", id |-> m.id]

\* WsEvent::MessageDelete { channel_id, message_id, is_deleted: true }.
MessageDelete(chan, mid) ==
    [type |-> "MessageDelete", user |-> None, ch |-> chan, val |-> "is_deleted", id |-> mid]

\* WsEvent::MemberJoin / MemberLeave / ServerUpdate; ch holds the server id.
ServerEvent(type, s, u) == [type |-> type, user |-> u, ch |-> s, val |-> None, id |-> 0]

\* What Receiver::recv yields when values it had not received were
\* overwritten: Err(RecvError::Lagged(_)).
Lagged == [type |-> "Lagged", user |-> None, ch |-> None, val |-> None, id |-> 0]

\* n times Sender::send(ev) into a broadcast channel of capacity 256 whose
\* Receiver will yield q: a send into a full channel overwrites the oldest
\* value the Receiver has not received, and the Receiver's next recv yields
\* Lagged before the values that are left.
RECURSIVE Enqueue(_, _, _)
Enqueue(q, ev, n) ==
    IF n = 0 THEN q
    ELSE LET held == IF q # <<>> /\ Head(q).type = "Lagged" THEN Tail(q) ELSE q
         IN  Enqueue(IF Len(held) < MAILBOX_CAPACITY THEN Append(q, ev)
                     ELSE <<Lagged>> \o Tail(held) \o <<ev>>,
                     ev, n - 1)

\* The connection's Receiver exists and has not been dropped: Sender::send
\* into its channel succeeds (api.rs:1208, 1268-1278, 1332-1335).
Live(k) == pc[k] \in {"subscribing", "ready", "active"}

\* Number of sends of one broadcast_to_channel(chan, _) that go to the Sender
\* of connection k: one per occurrence, in the subscriber list, of a user
\* whose session is k's.
Sends(subs, sess, chan, k) ==
    Cardinality({i \in 1..Len(subs[chan]) : sess[subs[chan][i]] = k})

\* AppState::broadcast_to_channel, api.rs:102-111.
BroadcastToChannel(mb, subs, sess, chan, ev) ==
    [k \in Conns |->
        IF Live(k) /\ ev.type \in watch
        THEN Enqueue(mb[k], ev, Sends(subs, sess, chan, k)) ELSE mb[k]]

\* AppState::broadcast_to_user, api.rs:114-119.
BroadcastToUser(mb, sess, u, ev) ==
    [k \in Conns |->
        IF Live(k) /\ ev.type \in watch /\ sess[u] = k THEN Enqueue(mb[k], ev, 1) ELSE mb[k]]

\* AppState::broadcast_to_server, api.rs:123-133: one send to the session of
\* each member in mem (the rows of list_members).
BroadcastToServer(mb, sess, mem, ev) ==
    [k \in Conns |->
        IF Live(k) /\ ev.type \in watch
        THEN Enqueue(mb[k], ev, Cardinality({u \in mem : sess[u] = k})) ELSE mb[k]]

\* A loop of broadcast_to_channel calls; items is a sequence of [ch, ev].
RECURSIVE BroadcastEach(_, _, _, _)
BroadcastEach(mb, subs, sess, items) ==
    IF items = <<>> THEN mb
    ELSE BroadcastEach(BroadcastToChannel(mb, subs, sess, Head(items).ch, Head(items).ev),
                       subs, sess, Tail(items))

\* The same event to each channel of a list.
ToEach(chans, ev) == [i \in 1..Len(chans) |-> [ch |-> chans[i], ev |-> ev]]

\* db::servers::list_for_user then db::channels::list_for_server for each
\* server, api.rs:1215-1220: the channel ids pushed onto subscribed_channels.
RECURSIVE ChannelsOfServers(_, _)
ChannelsOfServers(servers, u) ==
    IF servers = <<>> THEN <<>>
    ELSE (IF u \in members[Head(servers)] THEN ServerChannels(Head(servers)) ELSE <<>>)
         \o ChannelsOfServers(Tail(servers), u)

SubscriptionList(u) == ChannelsOfServers(ServerOrder, u)

\* channel_subs.entry(id).or_default().push(user) for each channel of a list.
RECURSIVE PushSubs(_, _, _)
PushSubs(subs, chans, u) ==
    IF chans = <<>> THEN subs
    ELSE PushSubs([subs EXCEPT ![Head(chans)] = Append(@, u)], Tail(chans), u)

\* Faulty variant of Unsubscribe: the last channel of the retained list is skipped.
UnsubscribeMutSkipLast(subs, chans, u) ==
    [c \in Channels |->
        IF \E i \in 1..(Len(chans) - 1) : chans[i] = c THEN Retain(subs[c], u) ELSE subs[c]]

\* api.rs:1353-1357: subs.retain(|id| id != user) for each retained channel.
Unsubscribe(subs, chans, u) ==
    [c \in Channels |-> IF InSeq(chans, c) THEN Retain(subs[c], u) ELSE subs[c]]

\* The connection reached ACTIVE and has disconnected: its cleanup is
\* running, parked or finished.
Departed(k) == conn_user[k] # None /\ ~Live(k)

\* undisturbed after an operation other than the cleanup of `except` has
\* added user u to a registry.
Touch(u, except) ==
    [j \in Conns |-> undisturbed[j] /\ ~(j # except /\ conn_user[j] = u /\ Departed(j))]

\* ------------------------------------------------------------------------
\* SFU registry (voice.rs)
\* ------------------------------------------------------------------------

\* A cleanup loop is parked in DashMap::remove on the shard of channel chan
\* while holding a read guard of its own iterator on that shard: the shard's
\* write lock is never granted again.
ShardStuck(chan) == \E k \in Conns : pc[k] = "blocked" /\ stuck_on[k] = chan

\* SfuServer::leave_channel(chan, u), voice.rs:289-301, as the new value of
\* <<sfu_channels, sfu_user, pc_open>>.  The entry of an emptied channel is
\* removed.
LeaveChannel(chan, u) ==
    IF ~sfu_channels[chan].present THEN <<sfu_channels, sfu_user, pc_open>>
    ELSE LET left == sfu_channels[chan].users \ {u}
         IN  << [sfu_channels EXCEPT ![chan] =
                    [present |-> left # {}, users |-> left]],
                [sfu_user EXCEPT ![<<chan, u>>] = NoSfuUser],
                pc_open \ {sfu_user[<<chan, u>>].pc} >>

\* Whether leave_channel(chan, u) ends in self.channels.remove(chan).
LeaveRemovesChannel(chan, u) ==
    sfu_channels[chan].present /\ sfu_channels[chan].users \ {u} = {}

\* offer_orphan after the map entry of channel chan has been removed: the
\* handle_offer calls that hold a clone of the removed SfuChannel.
Orphaned(chan) ==
    [k \in Conns |-> offer_orphan[k] \/ offer_ch[k] = chan]

\* ------------------------------------------------------------------------
\* Gateway connection (api.rs handle_ws)
\* ------------------------------------------------------------------------

\* What socket.recv() yields first: an Identify frame, another frame, or no
\* text frame at all.
FirstFrames == {"identify", "other", "binary", "none"}

\* Faulty variant of CloseFrame: the Close frame carries no reason.
CloseFrameMutNoReason(frame) == [code |-> CLOSE_CODE, reason |-> None]

\* api.rs:1181-1202: the Close frame sent to a socket whose first frame is
\* an Identify with a token that fails validation ("identify"), another
\* frame or an unparseable one ("other"), or not a text frame at all.
CloseFrame(frame) ==
    [code |-> CLOSE_CODE,
     reason |-> IF frame = "identify" THEN "Invalid token"
                ELSE IF frame = "other" THEN "Expected Identify"
                ELSE "No message received"]

\* UNAUTH, api.rs:1174-1209.  A rejected socket is sent Close(1000, reason)
\* and handle_ws returns; an accepted one gets a mailbox and a session entry.
Identify(k) ==
    /\ pc[k] = "unauth"
    /\ \E frame \in FirstFrames :
         IF frame = "identify"
         THEN \E t \in ConnTokens(k) :
                /\ ValidateTokenFederated(t, HUB_PEM)
                /\ IF last_validate'.outcome = "Ok"
                   THEN LET u == last_validate'.user
                        IN  /\ pc' = [pc EXCEPT ![k] = "subscribing"]
                            /\ conn_user' = [conn_user EXCEPT ![k] = u]
                            /\ ws_sessions' = [ws_sessions EXCEPT ![u] = k]
                            /\ undisturbed' = Touch(u, k)
                            /\ UNCHANGED close_reason
                   ELSE /\ pc' = [pc EXCEPT ![k] = "closed"]
                        /\ close_reason' = [close_reason EXCEPT ![k] = CloseFrame(frame)]
                        /\ UNCHANGED <<conn_user, ws_sessions, undisturbed>>
         ELSE /\ pc' = [pc EXCEPT ![k] = "closed"]
              /\ close_reason' = [close_reason EXCEPT ![k] = CloseFrame(frame)]
              /\ UNCHANGED <<tokenVars, conn_user, ws_sessions, undisturbed>>
    /\ UNCHANGED <<subscribed_channels, offer_ch, offer_orphan, offers, sfu_visited,
                   stuck_on, offline_calls>>
    /\ UNCHANGED <<channel_subs, presence, typingVars, mailbox>>
    /\ UNCHANGED <<sfVars, dbVars, restVars, obsVars, voiceVars, sfuVars>>

\* SUBSCRIBING, api.rs:1211-1249: the channels of the user's servers are
\* retained locally and the user is pushed onto each subscriber list; then
\* the Ready frame is written to the socket (api.rs:1237-1249), which is
\* what pc = "ready" records.
Subscribe(k) ==
    /\ pc[k] = "subscribing"
    /\ LET u == conn_user[k]
           list == SubscriptionList(u)
       IN  /\ subscribed_channels' = [subscribed_channels EXCEPT ![k] = list]
           /\ channel_subs' = PushSubs(channel_subs, list, u)
           /\ undisturbed' = IF list = <<>> THEN undisturbed ELSE Touch(u, k)
    /\ pc' = [pc EXCEPT ![k] = "ready"]
    /\ UNCHANGED <<conn_user, close_reason, offer_ch, offer_orphan, offers, sfu_visited,
                   stuck_on, offline_calls>>
    /\ UNCHANGED <<ws_sessions, presence, typingVars, mailbox>>
    /\ UNCHANGED <<tokenVars, sfVars, dbVars, restVars, obsVars, voiceVars, sfuVars>>

\* api.rs:1237-1278: after the Ready frame, presence goes online, the online
\* PresenceUpdate is fanned out to the retained channels and the forwarder
\* and reader tasks are spawned.
Activate(k) ==
    /\ pc[k] = "ready"
    /\ LET u == conn_user[k]
       IN  /\ presence' = [presence EXCEPT ![u] = "online"]
           /\ mailbox' = BroadcastEach(mailbox, channel_subs, ws_sessions,
                             ToEach(subscribed_channels[k], PresenceUpdate(u, "online")))
    /\ pc' = [pc EXCEPT ![k] = "active"]
    /\ UNCHANGED <<conn_user, subscribed_channels, close_reason, offer_ch, offer_orphan,
                   offers, sfu_visited, stuck_on, offline_calls, undisturbed>>
    /\ UNCHANGED <<ws_sessions, channel_subs, typingVars>>
    /\ UNCHANGED <<tokenVars, sfVars, dbVars, restVars, obsVars, voiceVars, sfuVars>>

\* api.rs:1332-1335: the reader or the forwarder ends and the other task is
\* aborted.  The reader cannot end inside handle_offer; when the forwarder
\* ends first, an offer the reader is handling is cancelled at its next
\* await, or, if the reader is running on another worker, after the code up
\* to that await has run (keep = TRUE).
Disconnect(k) ==
    /\ pc[k] = "active"
    /\ \E keep \in BOOLEAN :
         /\ keep => offer_ch[k] # None
         /\ offer_ch' = IF keep THEN offer_ch ELSE [offer_ch EXCEPT ![k] = None]
         /\ offer_orphan' = IF keep THEN offer_orphan
                            ELSE [offer_orphan EXCEPT ![k] = FALSE]
    /\ pc' = [pc EXCEPT ![k] = "cl_session"]
    /\ undisturbed' = [undisturbed EXCEPT ![k] = TRUE]
    /\ UNCHANGED <<conn_user, subscribed_channels, close_reason, offers, sfu_visited,
                   stuck_on, offline_calls>>
    /\ UNCHANGED <<tokenVars, sfVars, dbVars, restVars, obsVars, regVars, voiceVars, sfuVars>>

\* api.rs:1337: state.ws_sessions.remove(&user_id).
CleanupSession(k) ==
    /\ pc[k] = "cl_session"
    /\ ws_sessions' = [ws_sessions EXCEPT ![conn_user[k]] = None]
    /\ pc' = [pc EXCEPT ![k] = "cl_sfu"]
    /\ UNCHANGED <<conn_user, subscribed_channels, close_reason, offer_ch, offer_orphan,
                   offers, sfu_visited, stuck_on, offline_calls, undisturbed>>
    /\ UNCHANGED <<channel_subs, presence, typingVars, mailbox>>
    /\ UNCHANGED <<tokenVars, sfVars, dbVars, restVars, obsVars, voiceVars, sfuVars>>

\* One iteration of api.rs:1343-1346: leave_channel(chan, user) called while
\* the iterator over sfu.channels holds a read guard on chan's shard.  When
\* leave_channel finds the channel's user map empty it calls
\* self.channels.remove(chan), which waits for the shard's write lock: the
\* loop is parked for good, after the user has been removed and its peer
\* connection closed.
CleanupSfuVisit(k, chan) ==
    /\ pc[k] = "cl_sfu"
    /\ sfu_channels[chan].present
    /\ chan \notin sfu_visited[k]
    /\ ~ShardStuck(chan)
    /\ LET u == conn_user[k]
           left == sfu_channels[chan].users \ {u}
       IN  /\ sfu_channels' = [sfu_channels EXCEPT ![chan].users = left]
           /\ sfu_user' = [sfu_user EXCEPT ![<<chan, u>>] = NoSfuUser]
           /\ pc_open' = pc_open \ {sfu_user[<<chan, u>>].pc}
           /\ IF left = {}
              THEN /\ pc' = [pc EXCEPT ![k] = "blocked"]
                   /\ stuck_on' = [stuck_on EXCEPT ![k] = chan]
              ELSE UNCHANGED <<pc, stuck_on>>
    /\ sfu_visited' = [sfu_visited EXCEPT ![k] = @ \cup {chan}]
    /\ UNCHANGED <<conn_user, subscribed_channels, close_reason, offer_ch, offer_orphan,
                   offers, offline_calls, undisturbed>>
    /\ UNCHANGED <<next_pc, pc_tracks, tracks>>
    /\ UNCHANGED <<tokenVars, sfVars, dbVars, restVars, obsVars, regVars, voiceVars>>

\* The iterator over sfu.channels is exhausted.
CleanupSfuDone(k) ==
    /\ pc[k] = "cl_sfu"
    /\ \A chan \in Channels : sfu_channels[chan].present => chan \in sfu_visited[k]
    /\ pc' = [pc EXCEPT ![k] = "cl_voice"]
    /\ UNCHANGED <<conn_user, subscribed_channels, close_reason, offer_ch, offer_orphan,
                   offers, sfu_visited, stuck_on, offline_calls, undisturbed>>
    /\ UNCHANGED <<tokenVars, sfVars, dbVars, restVars, obsVars, regVars, voiceVars, sfuVars>>

\* ------------------------------------------------------------------------
\* Voice registry (api.rs voice handlers)
\* ------------------------------------------------------------------------

NoParticipants == [present |-> FALSE, parts |-> <<>>]

\* The scan over voice_states: the channels whose list holds user u.
VoiceChannelsOf(u) ==
    SelectSeq(ChanOrder,
              LAMBDA c : voice_states[c].present /\ InSeq(voice_states[c].parts, u))

\* participants.retain(|p| p.user_id != u) on each channel of chans; an
\* emptied entry is removed from the map when drop_empty.
RemoveParticipant(vs, chans, u, drop_empty) ==
    [c \in Channels |->
        IF InSeq(chans, c) /\ vs[c].present
        THEN LET kept == Retain(vs[c].parts, u)
             IN  IF drop_empty /\ kept = <<>> THEN NoParticipants
                 ELSE [present |-> TRUE, parts |-> kept]
        ELSE vs[c]]

\* One VoiceStateUpdate(joined = false) per channel of chans.
LeaveEvents(chans, u) ==
    [i \in 1..Len(chans) |-> [ch |-> chans[i], ev |-> VoiceStateUpdate(chans[i], u, FALSE)]]

\* broadcast_voice_leave(state, user_id), api.rs:1561-1588, called at api.rs:1350.
CleanupVoice(k) ==
    /\ pc[k] = "cl_voice"
    /\ LET u == conn_user[k]
           chans == VoiceChannelsOf(u)
       IN  /\ voice_states' = RemoveParticipant(voice_states, chans, u, TRUE)
           /\ mailbox' = BroadcastEach(mailbox, channel_subs, ws_sessions,
                                       LeaveEvents(chans, u))
    /\ pc' = [pc EXCEPT ![k] = "cl_unsub"]
    /\ UNCHANGED <<conn_user, subscribed_channels, close_reason, offer_ch, offer_orphan,
                   offers, sfu_visited, stuck_on, offline_calls, undisturbed>>
    /\ UNCHANGED <<ws_sessions, channel_subs, presence, typingVars, vj>>
    /\ UNCHANGED <<tokenVars, sfVars, dbVars, restVars, obsVars, sfuVars>>

\* api.rs:1353-1360: the user is retained out of the subscriber list of each
\* locally retained channel and its presence is set to offline.
CleanupUnsub(k) ==
    /\ pc[k] = "cl_unsub"
    /\ channel_subs' = Unsubscribe(channel_subs, subscribed_channels[k], conn_user[k])
    /\ presence' = [presence EXCEPT ![conn_user[k]] = "offline"]
    /\ pc' = [pc EXCEPT ![k] = "cl_offline"]
    /\ UNCHANGED <<conn_user, subscribed_channels, close_reason, offer_ch, offer_orphan,
                   offers, sfu_visited, stuck_on, offline_calls, undisturbed>>
    /\ UNCHANGED <<ws_sessions, mailbox, typingVars>>
    /\ UNCHANGED <<tokenVars, sfVars, dbVars, restVars, obsVars, voiceVars, sfuVars>>

\* api.rs:1373: the channels the offline PresenceUpdate is fanned out to.
OfflineTargets(k) == subscribed_channels[k]

\* api.rs:1362-1375: the final PresenceUpdate(offline) fan-out; handle_ws
\* returns.
CleanupOffline(k) ==
    /\ pc[k] = "cl_offline"
    /\ mailbox' = BroadcastEach(mailbox, channel_subs, ws_sessions,
                      ToEach(OfflineTargets(k), PresenceUpdate(conn_user[k], "offline")))
    /\ offline_calls' = [offline_calls EXCEPT ![k] = OfflineTargets(k)]
    /\ pc' = [pc EXCEPT ![k] = "closed"]
    /\ UNCHANGED <<conn_user, subscribed_channels, close_reason, offer_ch, offer_orphan,
                   offers, sfu_visited, stuck_on, undisturbed>>
    /\ UNCHANGED <<ws_sessions, channel_subs, presence, typingVars>>
    /\ UNCHANGED <<tokenVars, sfVars, dbVars, restVars, obsVars, voiceVars, sfuVars>>

\* voice_join up to its store lookup, api.rs:1392-1418: the user is retained
\* out of every list that holds it and a leave is broadcast for each.
VoiceJoinStart(r, u, chan) ==
    /\ vj[r].pc = "idle"
    /\ LET old == VoiceChannelsOf(u)
       IN  /\ voice_states' = RemoveParticipant(voice_states, old, u, FALSE)
           /\ mailbox' = BroadcastEach(mailbox, channel_subs, ws_sessions,
                                       LeaveEvents(old, u))
    /\ vj' = [vj EXCEPT ![r] = [pc |-> "lookup", kind |-> "join", user |-> u, ch |-> chan]]
    /\ UNCHANGED <<ws_sessions, channel_subs, presence, typingVars>>
    /\ UNCHANGED <<tokenVars, sfVars, dbVars, restVars, obsVars, connVars, sfuVars>>

\* api.rs:1433-1437: voice_states.entry(channel_id).or_default().retain(..).
VoiceJoinInsert(r) ==
    /\ vj[r].pc = "lookup"
    /\ voice_states' = [voice_states EXCEPT ![vj[r].ch] =
           [present |-> TRUE, parts |-> Retain(@.parts, vj[r].user)]]
    /\ vj' = [vj EXCEPT ![r].pc = "push"]
    /\ UNCHANGED <<tokenVars, sfVars, dbVars, restVars, obsVars, connVars, regVars, sfuVars>>

\* api.rs:1438-1462: get_mut(channel_id).unwrap().push(participant), then the
\* join is broadcast.  unwrap panics when the entry has been removed.
VoiceJoinPush(r) ==
    /\ vj[r].pc = "push"
    /\ LET u == vj[r].user
           chan == vj[r].ch
       IN  IF voice_states[chan].present
           THEN /\ voice_states' = [voice_states EXCEPT ![chan].parts = Append(@, u)]
                /\ mailbox' = BroadcastToChannel(mailbox, channel_subs, ws_sessions, chan,
                                                 VoiceStateUpdate(chan, u, TRUE))
                /\ undisturbed' = Touch(u, None)
                /\ vj' = [vj EXCEPT ![r].pc = "done"]
           ELSE /\ vj' = [vj EXCEPT ![r].pc = "panicked"]
                /\ UNCHANGED <<voice_states, mailbox, undisturbed>>
    /\ UNCHANGED <<pc, conn_user, subscribed_channels, close_reason, offer_ch, offer_orphan,
                   offers, sfu_visited, stuck_on, offline_calls>>
    /\ UNCHANGED <<ws_sessions, channel_subs, presence, typingVars>>
    /\ UNCHANGED <<tokenVars, sfVars, dbVars, restVars, obsVars, sfuVars>>

\* voice_leave, api.rs:1466-1496: leave_channel on the SFU, then the user is
\* retained out of the channel's list (an emptied entry is removed) and a
\* leave is broadcast whether or not the user was in the list.
VoiceLeave(r, u, chan) ==
    /\ vj[r].pc = "idle"
    /\ ~ShardStuck(chan)
    /\ sfu_channels' = LeaveChannel(chan, u)[1]
    /\ sfu_user' = LeaveChannel(chan, u)[2]
    /\ pc_open' = LeaveChannel(chan, u)[3]
    /\ offer_orphan' = IF LeaveRemovesChannel(chan, u) THEN Orphaned(chan) ELSE offer_orphan
    /\ voice_states' = RemoveParticipant(voice_states, <<chan>>, u, TRUE)
    /\ mailbox' = BroadcastToChannel(mailbox, channel_subs, ws_sessions, chan,
                                     VoiceStateUpdate(chan, u, FALSE))
    /\ vj' = [vj EXCEPT ![r] = [pc |-> "done", kind |-> "leave", user |-> u, ch |-> chan]]
    /\ UNCHANGED <<pc, conn_user, subscribed_channels, close_reason, offer_ch, offers,
                   sfu_visited, stuck_on, offline_calls, undisturbed>>
    /\ UNCHANGED <<ws_sessions, channel_subs, presence, typingVars>>
    /\ UNCHANGED <<next_pc, pc_tracks, tracks>>
    /\ UNCHANGED <<tokenVars, sfVars, dbVars, restVars, obsVars>>

\* ------------------------------------------------------------------------
\* SFU offers (voice.rs handle_offer, called from the reader at api.rs:1295)
\* ------------------------------------------------------------------------

\* Order in which a channel's user map is iterated.
UserOrder == <<"u1", "u2", "u3">>

\* The users of channel chan other than u, in iteration order.
Others(chan, u) ==
    SelectSeq(UserOrder, LAMBDA v : v # u /\ v \in sfu_channels[chan].users)

\* other_track.id(): the id the sending client gave the track.
TrackLabel(t) == tracks[t].label

\* voice.rs:87-108, the renegotiation loop: the my_track of each other user
\* is added to the peer connection unless its id is already in
\* subscribed_tracks.  Yields [added, subscribed].
RECURSIVE SubscribeNew(_, _, _, _)
SubscribeNew(chan, others, added, subscribed) ==
    IF others = <<>> THEN [added |-> added, subscribed |-> subscribed]
    ELSE LET t == sfu_user[<<chan, Head(others)>>].my_track
         IN  IF t # 0 /\ ~InSeq(subscribed, TrackLabel(t))
             THEN SubscribeNew(chan, Tail(others), added \cup {t},
                               Append(subscribed, TrackLabel(t)))
             ELSE SubscribeNew(chan, Tail(others), added, subscribed)

\* voice.rs:231-249, the first-join loop: the my_track of each other user is
\* added and its id pushed.  Yields [added, subscribed].
RECURSIVE SubscribeAll(_, _, _, _)
SubscribeAll(chan, others, added, subscribed) ==
    IF others = <<>> THEN [added |-> added, subscribed |-> subscribed]
    ELSE LET t == sfu_user[<<chan, Head(others)>>].my_track
         IN  IF t # 0
             THEN SubscribeAll(chan, Tail(others), added \cup {t},
                               Append(subscribed, TrackLabel(t)))
             ELSE SubscribeAll(chan, Tail(others), added, subscribed)

\* handle_offer up to its first await, voice.rs:66-152, for an offer frame
\* of connection k on channel chan.  The channel entry is created when
\* absent.  For a user already in the channel the offer is a renegotiation
\* (voice.rs:74-137), which fails at set_remote_description when the offer is
\* malformed or the peer connection is closed; api.rs:1296-1305 sends the
\* answer to the user.  Otherwise the call awaits new_peer_connection.
HandleOfferStart(k, chan) ==
    /\ pc[k] = "active"
    /\ offer_ch[k] = None
    /\ offers[k] < MaxOffers
    /\ ~ShardStuck(chan)
    /\ offers' = [offers EXCEPT ![k] = @ + 1]
    /\ LET u == conn_user[k]
           su == sfu_user[<<chan, u>>]
       IN  IF sfu_channels[chan].present /\ u \in sfu_channels[chan].users
           THEN /\ \E sdp_ok \in BOOLEAN :
                     IF sdp_ok /\ su.pc \in pc_open
                     THEN LET got == SubscribeNew(chan, Others(chan, u), {}, su.subscribed)
                          IN  /\ pc_tracks' = [pc_tracks EXCEPT ![su.pc] = @ \cup got.added]
                              /\ sfu_user' = [sfu_user EXCEPT
                                                ![<<chan, u>>].subscribed = got.subscribed]
                              /\ mailbox' = BroadcastToUser(mailbox, ws_sessions, u,
                                                            Answer(chan, u))
                     ELSE UNCHANGED <<pc_tracks, sfu_user, mailbox>>
                /\ UNCHANGED <<sfu_channels, offer_ch>>
           ELSE /\ sfu_channels' = [sfu_channels EXCEPT ![chan].present = TRUE]
                /\ offer_ch' = [offer_ch EXCEPT ![k] = chan]
                /\ UNCHANGED <<pc_tracks, sfu_user, mailbox>>
    /\ UNCHANGED <<pc, conn_user, subscribed_channels, close_reason, offer_orphan,
                   sfu_visited, stuck_on, offline_calls, undisturbed>>
    /\ UNCHANGED <<ws_sessions, channel_subs, presence, typingVars>>
    /\ UNCHANGED <<next_pc, pc_open, tracks>>
    /\ UNCHANGED <<tokenVars, sfVars, dbVars, restVars, obsVars, voiceVars>>

\* Uuid::nil(), the to_user_id that addresses the SFU.
NIL == "nil"

\* Faulty variant of Dispatch: frames addressed to a user are handled as
\* if addressed to the SFU.
DispatchMutRelay(to, kind) ==
    IF kind = "offer" THEN "offer" ELSE IF kind = "ice" THEN "ice" ELSE "nothing"

\* The reader's match on a WebRTCSignal frame, api.rs:1289-1318: where the
\* frame goes.
Dispatch(to, kind) ==
    IF to = NIL
    THEN IF kind = "offer" THEN "offer" ELSE IF kind = "ice" THEN "ice" ELSE "nothing"
    ELSE "ignored"

\* The reader takes one WebRTCSignal frame off the socket.  An offer for the
\* SFU goes to handle_offer.  An ICE candidate for the SFU goes to
\* handle_ice_candidate (voice.rs:272-287), which hands it to the user's peer
\* connection and changes nothing that is modelled.  Any other frame is
\* logged at most.
SignalFrame(k, to, kind, chan) ==
    IF Dispatch(to, kind) = "offer"
    THEN HandleOfferStart(k, chan)
    ELSE /\ pc[k] = "active"
         /\ offer_ch[k] = None
         /\ offers[k] < MaxOffers
         /\ offers' = [offers EXCEPT ![k] = @ + 1]
         /\ UNCHANGED <<pc, conn_user, subscribed_channels, close_reason, offer_ch,
                        offer_orphan, sfu_visited, stuck_on, offline_calls, undisturbed>>
         /\ UNCHANGED <<tokenVars, sfVars, dbVars, restVars, obsVars, regVars, voiceVars,
                        sfuVars>>

\* The first-time join, voice.rs:152-268, once new_peer_connection has
\* returned.  The SfuUser is inserted into the SfuChannel the call obtained
\* at voice.rs:66-71 (no longer the map's when the entry was removed
\* meanwhile) before set_remote_description examines the offer.  A reader
\* that was aborted is dropped at that await.
HandleOfferJoin(k) ==
    /\ offer_ch[k] # None
    /\ next_pc <= MaxPcs
    /\ LET u == conn_user[k]
           chan == offer_ch[k]
           p == next_pc
           inserted == [sfu_user EXCEPT ![<<chan, u>>] =
                           [pc |-> p, my_track |-> 0, subscribed |-> <<>>]]
       IN  /\ next_pc' = p + 1
           /\ pc_open' = pc_open \cup {p}
           /\ sfu_channels' = IF offer_orphan[k] THEN sfu_channels
                              ELSE [sfu_channels EXCEPT ![chan].users = @ \cup {u}]
           /\ undisturbed' = IF offer_orphan[k] THEN undisturbed ELSE Touch(u, None)
           /\ \E sdp_ok \in BOOLEAN :
                IF sdp_ok /\ pc[k] = "active"
                THEN LET got == IF offer_orphan[k]
                                THEN [added |-> {}, subscribed |-> <<>>]
                                ELSE SubscribeAll(chan, Others(chan, u), {}, <<>>)
                     IN  /\ pc_tracks' = [pc_tracks EXCEPT ![p] = got.added]
                         /\ sfu_user' = IF offer_orphan[k] THEN sfu_user
                                        ELSE [inserted EXCEPT
                                                ![<<chan, u>>].subscribed = got.subscribed]
                         /\ mailbox' = BroadcastToUser(mailbox, ws_sessions, u,
                                                       Answer(chan, u))
                ELSE /\ sfu_user' = IF offer_orphan[k] THEN sfu_user ELSE inserted
                     /\ UNCHANGED <<pc_tracks, mailbox>>
    /\ offer_ch' = [offer_ch EXCEPT ![k] = None]
    /\ offer_orphan' = [offer_orphan EXCEPT ![k] = FALSE]
    /\ UNCHANGED <<pc, conn_user, subscribed_channels, close_reason, offers,
                   sfu_visited, stuck_on, offline_calls>>
    /\ UNCHANGED <<ws_sessions, channel_subs, presence, typingVars>>
    /\ UNCHANGED tracks
    /\ UNCHANGED <<tokenVars, sfVars, dbVars, restVars, obsVars, voiceVars>>

\* The on_track callback, voice.rs:168-208: the first media of user u's
\* peer connection arrives; a new TrackLocalStaticRTP is created and stored
\* in my_track.  A client sends one audio track per peer connection.
OnTrack(chan, u, label) ==
    /\ sfu_channels[chan].present
    /\ u \in sfu_channels[chan].users
    /\ sfu_user[<<chan, u>>].pc \in pc_open
    /\ sfu_user[<<chan, u>>].my_track = 0
    /\ Len(tracks) < MaxTracks
    /\ tracks' = Append(tracks, [label |-> label, owner |-> u,
                                 pc |-> sfu_user[<<chan, u>>].pc])
    /\ sfu_user' = [sfu_user EXCEPT ![<<chan, u>>].my_track = Len(tracks) + 1]
    /\ UNCHANGED <<sfu_channels, next_pc, pc_open, pc_tracks>>
    /\ UNCHANGED <<tokenVars, sfVars, dbVars, restVars, obsVars, connVars, regVars, voiceVars>>

\* The client of user u's peer connection in channel chan closes it (or the
\* transport fails): the RTCPeerConnection is closed while its SfuUser stays
\* in the channel; nothing in voice.rs observes the connection state.
ClientClosePc(chan, u) ==
    /\ sfu_channels[chan].present
    /\ u \in sfu_channels[chan].users
    /\ sfu_user[<<chan, u>>].pc \in pc_open
    /\ pc_open' = pc_open \ {sfu_user[<<chan, u>>].pc}
    /\ UNCHANGED <<sfu_channels, sfu_user, next_pc, pc_tracks, tracks>>
    /\ UNCHANGED <<tokenVars, sfVars, dbVars, restVars, obsVars, connVars, regVars, voiceVars>>

\* ------------------------------------------------------------------------
\* Mailbox forwarding and messages (api.rs handle_ws, send_message)
\* ------------------------------------------------------------------------

\* Faulty variant of Forward: the newest pending event is written first.
ForwardMutNewest(k) ==
    /\ pc[k] = "active"
    /\ mailbox[k] # <<>>
    /\ wire' = [wire EXCEPT ![k] = Append(@, mailbox[k][Len(mailbox[k])])]
    /\ mailbox' = [mailbox EXCEPT ![k] = SubSeq(@, 1, Len(@) - 1)]
    /\ UNCHANGED <<ws_sessions, channel_subs, presence, typingVars, watch, budget>>
    /\ UNCHANGED <<tokenVars, sfVars, dbVars, restVars, connVars, voiceVars, sfuVars>>

\* One iteration of the forwarder, api.rs:1268-1278: rx.recv() yields the
\* oldest event, which is written to the socket.  When recv yields Lagged
\* the loop ends; the select at api.rs:1332-1335 then aborts the reader and
\* the cleanup starts.
Forward(k) ==
    /\ pc[k] = "active"
    /\ mailbox[k] # <<>>
    /\ IF Head(mailbox[k]).type = "Lagged"
       THEN Disconnect(k)
       ELSE /\ mailbox' = [mailbox EXCEPT ![k] = Tail(@)]
            /\ wire' = [wire EXCEPT ![k] = Append(@, Head(mailbox[k]))]
            /\ UNCHANGED <<ws_sessions, channel_subs, presence, typingVars, watch, budget>>
            /\ UNCHANGED <<tokenVars, sfVars, dbVars, restVars, connVars,
                           voiceVars, sfuVars>>

\* MAX_MESSAGE_LENGTH, chat.rs:15.
MAX_MESSAGE_LENGTH == 4000

\* Byte lengths of the content of a SendMessageRequest: empty, one byte, the
\* longest content validate_message accepts and one byte more.
ContentLens == {0, 1, MAX_MESSAGE_LENGTH, MAX_MESSAGE_LENGTH + 1}

\* chat::validate_message, chat.rs:21-32, on a content of len bytes.
ValidateMessage(len) ==
    IF len = 0 THEN "BadRequest"
    ELSE IF len > MAX_MESSAGE_LENGTH THEN "BadRequest"
    ELSE "Ok"

\* send_message, api.rs:1081-1102, for a request whose content is len bytes
\* long: a snowflake id is minted, the message is inserted with the content
\* of the request and MessageCreate is fanned out to the channel's
\* subscribers.
SendMessageRequest(u, chan, len) ==
    /\ budget > 0
    /\ budget' = budget - 1
    /\ MintId
    /\ LET m == [id |-> MakeId(sf_now, sf_sequence), ch |-> chan, author |-> u,
                 len |-> len]
       IN  /\ messages' = messages \cup {m}
           /\ mailbox' = BroadcastToChannel(mailbox, channel_subs, ws_sessions, chan,
                                            MessageCreate(m))
           /\ http' = [op |-> "send_message", user |-> u, arg |-> chan,
                       status |-> "200", casts |-> 1]
    /\ UNCHANGED <<members, owner, bans, role_mask, new_channels, jn, watch, wire>>
    /\ UNCHANGED <<ws_sessions, channel_subs, presence, typingVars>>
    /\ UNCHANGED <<tokenVars, connVars, voiceVars, sfuVars>>

\* send_message for a request with a content of one byte.
SendMessage(u, chan) == SendMessageRequest(u, chan, 1)

\* ------------------------------------------------------------------------
\* Permissions (models.rs Permissions, api.rs check_permission)
\* ------------------------------------------------------------------------

\* db::members::get_permissions: the OR of the masks of the member's roles
\* and of the server's @everyone role (created with SEND_MESSAGES,
\* api.rs:696-703); a user who is not a member has no permission.
GetPermissions(u, s) ==
    IF u \in members[s] THEN BitOr(role_mask[<<s, u>>], SEND_MESSAGES) ELSE 0

\* Faulty variant of Has: ADMINISTRATOR does not override.
HasMutNoAdmin(perms, permission) == BitAnd(perms, permission) # 0

\* Permissions::has, models.rs:208-210.
Has(perms, permission) ==
    BitAnd(perms, ADMINISTRATOR) # 0 \/ BitAnd(perms, permission) # 0

\* Faulty variant of CheckPermission: nobody is refused.
CheckPermissionMutAllow(u, s, permission) == "Ok"

\* check_permission, api.rs:33-48.
CheckPermission(u, s, permission) ==
    IF Has(GetPermissions(u, s), permission) THEN "Ok" ELSE "Forbidden"

\* The named permission bits, models.rs:191-197.
PermissionBits ==
    {MANAGE_CHANNELS, MANAGE_SERVER, KICK_MEMBERS, BAN_MEMBERS, SEND_MESSAGES,
     ADMINISTRATOR, MANAGE_MESSAGES}

\* A call of Permissions::new(bits).has(permission); the response records
\* the arguments and the result.
HasCall(bits, permission) ==
    /\ budget > 0
    /\ budget' = budget - 1
    /\ http' = [op |-> "has", user |-> None, arg |-> <<bits, permission>>,
                status |-> IF Has(bits, permission) THEN "true" ELSE "false", casts |-> 0]
    /\ UNCHANGED <<jn, watch, wire, tokenVars, sfVars, dbVars, connVars, regVars, voiceVars, sfuVars>>

\* A call of check_permission(user, server, permission).
CheckPermissionCall(u, s, permission) ==
    /\ budget > 0
    /\ budget' = budget - 1
    /\ http' = [op |-> "check_permission", user |-> u, arg |-> <<s, permission>>,
                status |-> CheckPermission(u, s, permission), casts |-> 0]
    /\ UNCHANGED <<jn, watch, wire, tokenVars, sfVars, dbVars, connVars, regVars, voiceVars, sfuVars>>

\* ------------------------------------------------------------------------
\* Membership handlers (api.rs join_server, leave_server, kick_member, ...)
\* ------------------------------------------------------------------------

\* The response of a handler.
Response(op, u, arg, status, casts) ==
    [op |-> op, user |-> u, arg |-> arg, status |-> status, casts |-> casts]

\* join_server up to its first store write, api.rs:731-735: the server row is
\* read and its owner compared with the sentinel.
JoinStart(j, u, s) ==
    /\ jn[j].pc = "idle"
    /\ budget > 0
    /\ budget' = budget - 1
    /\ jn' = [jn EXCEPT ![j] = [pc |-> IF owner[s] = SYSTEM_OWNER THEN "transfer" ELSE "add",
                                user |-> u, server |-> s]]
    /\ UNCHANGED <<http, watch, wire>>
    /\ UNCHANGED <<tokenVars, sfVars, dbVars, connVars, regVars, voiceVars, sfuVars>>

\* db::servers::transfer_ownership(server, new_owner).
TransferOwnership(own, s, u) == [own EXCEPT ![s] = u]

\* api.rs:736-745: the ownership is transferred to the caller and the
\* ServerUpdate is broadcast to the server's members.
JoinTransfer(j) ==
    /\ jn[j].pc = "transfer"
    /\ owner' = TransferOwnership(owner, jn[j].server, jn[j].user)
    /\ mailbox' = BroadcastToServer(mailbox, ws_sessions, members[jn[j].server],
                       ServerEvent("ServerUpdate", jn[j].server, jn[j].user))
    /\ jn' = [jn EXCEPT ![j].pc = "add"]
    /\ UNCHANGED <<members, bans, messages, role_mask, new_channels, http>>
    /\ UNCHANGED <<ws_sessions, channel_subs, presence, typingVars>>
    /\ UNCHANGED <<tokenVars, sfVars, obsVars, connVars, voiceVars, sfuVars>>

\* api.rs:749-761: the member row is added (a no-op for a member) and
\* MemberJoin is broadcast to the server's members.
JoinAdd(j) ==
    /\ jn[j].pc = "add"
    /\ LET u == jn[j].user
           s == jn[j].server
       IN  /\ members' = [members EXCEPT ![s] = @ \cup {u}]
           /\ mailbox' = BroadcastToServer(mailbox, ws_sessions, members[s] \cup {u},
                                           ServerEvent("MemberJoin", s, u))
           /\ http' = Response("join_server", u, s, "200", 1)
    /\ jn' = [jn EXCEPT ![j] = NoJn]
    /\ UNCHANGED <<owner, bans, messages, role_mask, new_channels>>
    /\ UNCHANGED <<ws_sessions, channel_subs, presence, typingVars>>
    /\ UNCHANGED <<tokenVars, sfVars, obsVars, connVars, voiceVars, sfuVars>>

\* The member row of u is deleted and MemberLeave is broadcast to the
\* members that are left (api.rs:779-786, 940-947, 978-985).
RemoveAndBroadcast(s, u) ==
    /\ members' = [members EXCEPT ![s] = @ \ {u}]
    /\ mailbox' = BroadcastToServer(mailbox, ws_sessions, members[s] \ {u},
                                    ServerEvent("MemberLeave", s, u))

\* leave_server, api.rs:764-789.
LeaveServer(u, s) ==
    /\ budget > 0
    /\ budget' = budget - 1
    /\ IF owner[s] = u
       THEN /\ http' = Response("leave_server", u, s, "BadRequest", 0)
            /\ UNCHANGED <<members, mailbox>>
       ELSE /\ RemoveAndBroadcast(s, u)
            /\ http' = Response("leave_server", u, s, "200", 1)
    /\ UNCHANGED <<owner, bans, messages, role_mask, new_channels, jn, watch, wire>>
    /\ UNCHANGED <<ws_sessions, channel_subs, presence, typingVars>>
    /\ UNCHANGED <<tokenVars, sfVars, connVars, voiceVars, sfuVars>>

\* Faulty variant of KickMember: the owner is not protected.
KickMemberMutNoOwner(caller, s, u) ==
    /\ budget > 0
    /\ budget' = budget - 1
    /\ IF CheckPermission(caller, s, KICK_MEMBERS) = "Forbidden"
       THEN /\ http' = Response("kick_member", caller, <<s, u>>, "Forbidden", 0)
            /\ UNCHANGED <<members, mailbox>>
       ELSE /\ RemoveAndBroadcast(s, u)
            /\ http' = Response("kick_member", caller, <<s, u>>, "204", 1)
    /\ UNCHANGED <<owner, bans, messages, role_mask, new_channels, jn, watch, wire>>
    /\ UNCHANGED <<ws_sessions, channel_subs, presence, typingVars>>
    /\ UNCHANGED <<tokenVars, sfVars, connVars, voiceVars, sfuVars>>

\* kick_member, api.rs:926-950.
KickMember(caller, s, u) ==
    /\ budget > 0
    /\ budget' = budget - 1
    /\ IF CheckPermission(caller, s, KICK_MEMBERS) = "Forbidden" \/ owner[s] = u
       THEN /\ http' = Response("kick_member", caller, <<s, u>>, "Forbidden", 0)
            /\ UNCHANGED <<members, mailbox>>
       ELSE /\ RemoveAndBroadcast(s, u)
            /\ http' = Response("kick_member", caller, <<s, u>>, "204", 1)
    /\ UNCHANGED <<owner, bans, messages, role_mask, new_channels, jn, watch, wire>>
    /\ UNCHANGED <<ws_sessions, channel_subs, presence, typingVars>>
    /\ UNCHANGED <<tokenVars, sfVars, connVars, voiceVars, sfuVars>>

\* ban_member, api.rs:959-988: the ban row is created, then the member row
\* is deleted.
BanMember(caller, s, u) ==
    /\ budget > 0
    /\ budget' = budget - 1
    /\ IF CheckPermission(caller, s, BAN_MEMBERS) = "Forbidden" \/ owner[s] = u
       THEN /\ http' = Response("ban_member", caller, <<s, u>>, "Forbidden", 0)
            /\ UNCHANGED <<members, bans, mailbox>>
       ELSE /\ bans' = [bans EXCEPT ![s] = @ \cup {u}]
            /\ RemoveAndBroadcast(s, u)
            /\ http' = Response("ban_member", caller, <<s, u>>, "204", 1)
    /\ UNCHANGED <<owner, messages, role_mask, new_channels, jn, watch, wire>>
    /\ UNCHANGED <<ws_sessions, channel_subs, presence, typingVars>>
    /\ UNCHANGED <<tokenVars, sfVars, connVars, voiceVars, sfuVars>>

\* unban_member, api.rs:990-1003.
UnbanMember(caller, s, u) ==
    /\ budget > 0
    /\ budget' = budget - 1
    /\ IF CheckPermission(caller, s, BAN_MEMBERS) = "Forbidden"
       THEN /\ http' = Response("unban_member", caller, <<s, u>>, "Forbidden", 0)
            /\ UNCHANGED bans
       ELSE /\ bans' = [bans EXCEPT ![s] = @ \ {u}]
            /\ http' = Response("unban_member", caller, <<s, u>>,
                                IF u \in bans[s] THEN "204" ELSE "NotFound", 0)
    /\ UNCHANGED <<members, owner, messages, role_mask, new_channels, jn, watch, wire>>
    /\ UNCHANGED <<tokenVars, sfVars, connVars, regVars, voiceVars, sfuVars>>

\* delete_message, api.rs:1120-1159, for the message id mid under the path
\* of channel chan.
DeleteMessage(u, chan, mid) ==
    /\ budget > 0
    /\ budget' = budget - 1
    /\ LET found == {m \in messages : m.id = mid /\ m.ch = chan}
       IN  IF found = {}
           THEN /\ http' = Response("delete_message", u, <<chan, mid>>, "NotFound", 0)
                /\ UNCHANGED <<messages, mailbox>>
           ELSE IF /\ \A m \in found : m.author # u
                   /\ CheckPermission(u, ServerOf(chan), MANAGE_MESSAGES) = "Forbidden"
           THEN /\ http' = Response("delete_message", u, <<chan, mid>>, "Forbidden", 0)
                /\ UNCHANGED <<messages, mailbox>>
           ELSE /\ messages' = messages \ found
                /\ mailbox' = BroadcastToChannel(mailbox, channel_subs, ws_sessions, chan,
                                                 MessageDelete(chan, mid))
                /\ http' = Response("delete_message", u, <<chan, mid>>, "204", 1)
    /\ UNCHANGED <<members, owner, bans, role_mask, new_channels, jn, watch, wire>>
    /\ UNCHANGED <<ws_sessions, channel_subs, presence, typingVars>>
    /\ UNCHANGED <<tokenVars, sfVars, connVars, voiceVars, sfuVars>>

\* ------------------------------------------------------------------------
\* Specifications
\* ------------------------------------------------------------------------

Init == InitToken /\ InitSnowflake /\ InitGateway /\ watch = {}

NextToken == Validate \/ Tick \/ HubChange

InitSf == Init /\ mode = "standalone"

\* A client presents the short-lived token; the key file is readable.
ValidateShortLived ==
    /\ ValidateTokenFederated("tok_u2", HUB_PEM)
    /\ UNCHANGED <<sfVars, gwVars>>

NextExpiry == ValidateShortLived \/ Tick

SpecExpiry == InitSf /\ [][NextExpiry]_vars

SpecToken == Init /\ [][NextToken]_vars

NextSnowflake == NextId \/ SfTick

SpecSnowflake == InitSf /\ [][NextSnowflake]_vars

\* The gateway with its voice and SFU handlers, in standalone mode.
InitGw ==
    /\ InitToken /\ InitSnowflake /\ InitGateway
    /\ mode = "standalone"
    /\ watch = {"PresenceUpdate"}

ConnStep(k) ==
    \/ Identify(k)
    \/ Subscribe(k)
    \/ Activate(k)
    \/ Disconnect(k)

CleanupStep(k) ==
    \/ CleanupSession(k)
    \/ \E chan \in Channels : CleanupSfuVisit(k, chan)
    \/ CleanupSfuDone(k)
    \/ CleanupVoice(k)
    \/ CleanupUnsub(k)
    \/ CleanupOffline(k)

VoiceStep(r) ==
    \/ \E chan \in Channels : VoiceJoinStart(r, ReqUser(r), chan)
    \/ VoiceJoinInsert(r)
    \/ VoiceJoinPush(r)
    \/ \E chan \in Channels : VoiceLeave(r, ReqUser(r), chan)

OfferStep(k) ==
    \/ \E chan \in OfferChannels : HandleOfferStart(k, chan)
    \/ HandleOfferJoin(k)

NextGateway ==
    \/ \E k \in Conns : ConnStep(k) \/ CleanupStep(k) \/ OfferStep(k)
    \/ VoiceStep("r1")

SpecGateway == InitGw /\ [][NextGateway]_vars

\* Gateway connections with two concurrent voice requests of one user.  No
\* client sends an SFU offer, so the cleanup loop over sfu.channels finds the
\* map empty.
NextVoice ==
    \/ \E k \in Conns : ConnStep(k)
    \/ \E k \in Conns : CleanupSession(k) \/ CleanupSfuDone(k) \/ CleanupVoice(k)
    \/ \E k \in Conns : CleanupUnsub(k) \/ CleanupOffline(k)
    \/ \E r \in Reqs : VoiceStep(r)

SpecVoice == InitGw /\ [][NextVoice]_vars

\* The SFU specifications record the answers sent to the offering users.
InitSfu ==
    /\ InitToken /\ InitSnowflake /\ InitGateway
    /\ mode = "standalone"
    /\ watch = {"WebRTCSignal"}

\* Connections that stay ACTIVE, with their offers, their media, the
\* client-side closing of peer connections and voice_leave requests.
NextSfu ==
    \/ \E k \in Conns : Identify(k) \/ Subscribe(k) \/ Activate(k) \/ OfferStep(k)
    \/ \E chan \in OfferChannels, u \in Users, label \in TrackLabels : OnTrack(chan, u, label)
    \/ \E chan \in OfferChannels, u \in Users : ClientClosePc(chan, u)
    \/ \E r \in Reqs, chan \in OfferChannels : VoiceLeave(r, ReqUser(r), chan)

SpecSfu == InitSfu /\ [][NextSfu]_vars

\* The SFU with a third participant already in the channel: Guest has
\* joined c2 with a first offer (peer connection 1, voice.rs:152-161) and its
\* media has arrived under the id "audio" (voice.rs:172-190).  Guest sends
\* nothing further and stays.
InitParty ==
    /\ InitToken /\ InitSnowflake /\ InitDb /\ InitSessions
    /\ budget = 0
    /\ mode = "standalone"
    /\ watch = {"WebRTCSignal"}
    /\ sfu_channels = [c \in Channels |->
                         IF c = "c2" THEN [present |-> TRUE, users |-> {Guest}]
                         ELSE [present |-> FALSE, users |-> {}]]
    /\ sfu_user = [x \in Channels \X SfuUsers |->
                     IF x = <<"c2", Guest>>
                     THEN [pc |-> 1, my_track |-> 1, subscribed |-> <<>>]
                     ELSE NoSfuUser]
    /\ next_pc = 2
    /\ pc_open = {1}
    /\ tracks = <<[label |-> "audio", owner |-> Guest, pc |-> 1]>>

SpecParty == InitParty /\ [][NextSfu]_vars

\* WebRTCSignal frames of every address and type: the client of k1 sends
\* frames addressed to users (legacy peer-to-peer), the client of k2 frames
\* addressed to the SFU.
NextSignal ==
    \/ \E k \in Conns : Identify(k) \/ Subscribe(k) \/ Activate(k) \/ HandleOfferJoin(k)
    \/ \E to \in Users, kind \in {"offer", "ice", "answer"}, chan \in OfferChannels :
          SignalFrame("k1", to, kind, chan)
    \/ \E kind \in {"offer", "ice", "answer"}, chan \in OfferChannels :
          SignalFrame("k2", NIL, kind, chan)
    \/ \E chan \in OfferChannels, u \in Users, label \in TrackLabels : OnTrack(chan, u, label)

SpecSignal == InitSfu /\ [][NextSignal]_vars

\* Two gateway connections and a stream of messages to channel c1.  The
\* messages start once both connections are ACTIVE, for different users;
\* the client of k2 reads its socket promptly, the client of k1 at any pace.
InitMailbox ==
    /\ InitToken /\ InitSnowflake /\ InitDb /\ InitSessions /\ InitSfuServer
    /\ mode = "standalone"
    /\ watch = {"MessageCreate"}
    /\ budget = MailboxRun

NextMailbox ==
    \/ \E k \in Conns : Identify(k) \/ Subscribe(k) \/ Activate(k) \/ Forward(k)
    \/ /\ pc["k1"] = "active"
       /\ pc["k2"] = "active" /\ mailbox["k2"] = <<>>
       /\ conn_user["k1"] # conn_user["k2"]
       /\ SendMessage("u2", "c1")

SpecMailbox == InitMailbox /\ [][NextMailbox]_vars

\* The life of the sockets up to ACTIVE, for progress properties.  The steps
\* the server takes by itself (loading the subscriptions, announcing
\* presence, forwarding the mailbox) are weakly fair; Identify is taken when
\* socket.recv() yields (api.rs:1174), which is up to the peer, and the code
\* arms no timer around it, so it carries no fairness.
NextSession == \E k \in Conns : Identify(k) \/ Subscribe(k) \/ Activate(k) \/ Forward(k)

SpecSession ==
    /\ InitGw
    /\ [][NextSession]_vars
    /\ \A k \in Conns : WF_vars(Subscribe(k) \/ Activate(k) \/ Forward(k))

\* The REST handlers over the store, next to the gateway's connection set-up.
\* Server s1 has its owner, an administrator, and a moderator; s2 is the
\* seeded default server, owned by the sentinel and without members.  The
\* gateway connections are opened first, then clients make at most MaxOps
\* requests; moderation requests are made on s1, where somebody holds the
\* permissions.
InitStore ==
    /\ InitToken /\ InitSnowflake /\ InitSessions /\ InitSfuServer
    /\ members = [s \in Servers |-> IF s = "s1" THEN {"u1", "u2"} ELSE {}]
    /\ owner = [s \in Servers |-> IF s = "s1" THEN "u2" ELSE SYSTEM_OWNER]
    /\ bans = [s \in Servers |-> {}]
    /\ messages = {}
    /\ new_channels = {}
    /\ role_mask = [x \in Servers \X Users |->
                       IF x = <<"s1", "u1">> THEN KICK_MEMBERS + MANAGE_MESSAGES
                       ELSE IF x = <<"s1", "u2">> THEN ADMINISTRATOR ELSE 0]
    /\ mode = "standalone"
    /\ watch = {"MessageCreate", "MessageDelete", "MemberJoin", "MemberLeave",
                "ServerUpdate"}
    /\ budget = MaxOps

NextStore ==
    \/ \E k \in Conns : budget = MaxOps /\ (Identify(k) \/ Subscribe(k) \/ Activate(k))
    \/ \E u \in Users, chan \in Channels : SendMessage(u, chan)
    \/ \E u \in Users, chan \in Channels, m \in messages : DeleteMessage(u, chan, m.id)
    \/ \E j \in JoinReqs, u \in Users, s \in Servers : JoinStart(j, u, s)
    \/ \E j \in JoinReqs : JoinTransfer(j) \/ JoinAdd(j)
    \/ \E u \in Users, s \in Servers : LeaveServer(u, s)
    \/ \E caller \in Users, u \in Users :
          KickMember(caller, "s1", u) \/ BanMember(caller, "s1", u)
             \/ UnbanMember(caller, "s1", u)

SpecStore == InitStore /\ [][NextStore]_vars

\* Messages of every content length sent to the channels while connections
\* are set up.
NextPost ==
    \/ \E k \in Conns : budget = MaxOps /\ (Identify(k) \/ Subscribe(k) \/ Activate(k))
    \/ \E u \in Users, chan \in Channels, len \in ContentLens :
          SendMessageRequest(u, chan, len)

SpecPost == InitStore /\ [][NextPost]_vars

\* The permission functions on every mask up to MaxMask: u1's roles on s1
\* carry any such mask, u2 is not a member of s2.
InitPerm ==
    /\ InitToken /\ InitSnowflake /\ InitSessions /\ InitSfuServer
    /\ members = InitialMembers
    /\ owner = [s \in Servers |-> "u2"]
    /\ bans = [s \in Servers |-> {}]
    /\ messages = {}
    /\ new_channels = {}
    /\ \E mask \in 0..MaxMask :
          role_mask = [x \in Servers \X Users |-> IF x = <<"s1", "u1">> THEN mask ELSE 0]
    /\ mode = "standalone"
    /\ watch = {}
    /\ budget = 1

NextPerm ==
    \/ \E bits \in 0..MaxMask, permission \in PermissionBits : HasCall(bits, permission)
    \/ \E u \in Users, s \in Servers, permission \in PermissionBits :
          CheckPermissionCall(u, s, permission)

SpecPerm == InitPerm /\ [][NextPerm]_vars

\* ------------------------------------------------------------------------
\* Channel handlers (api.rs create_channel)
\* ------------------------------------------------------------------------

\* Uuid::now_v7(), api.rs:1034: the id of the n-th channel created, an id no
\* server or channel has.
NewChannelId(n) == IF n = 1 THEN "c3" ELSE IF n = 2 THEN "c4" ELSE "c5"

\* WsEvent::ChannelCreate(channel).
ChannelCreate(id, s) ==
    [type |-> "ChannelCreate", user |-> None, ch |-> id, val |-> s, id |-> 0]

\* channel_subs.get(key) followed by the sends of broadcast_to_channel,
\* api.rs:102-111, for a key of any kind: a key the map does not hold makes
\* no send.
BroadcastToKey(mb, subs, sess, key, ev) ==
    IF key \in DOMAIN subs THEN BroadcastToChannel(mb, subs, sess, key, ev) ELSE mb

\* create_channel, api.rs:1026-1050: after the MANAGE_CHANNELS check the row
\* is inserted and ChannelCreate is handed to broadcast_to_channel with the
\* server id as the key.  The new rows are read by list_for_server of
\* connections opened afterwards.
CreateChannel(u, s) ==
    /\ budget > 0
    /\ budget' = budget - 1
    /\ Cardinality(new_channels) < MaxNewChannels
    /\ IF CheckPermission(u, s, MANAGE_CHANNELS) = "Forbidden"
       THEN /\ http' = Response("create_channel", u, s, "Forbidden", 0)
            /\ UNCHANGED <<new_channels, mailbox>>
       ELSE LET id == NewChannelId(Cardinality(new_channels) + 1)
            IN  /\ new_channels' = new_channels \cup {[id |-> id, server |-> s]}
                /\ mailbox' = BroadcastToKey(mailbox, channel_subs, ws_sessions, s,
                                              ChannelCreate(id, s))
                /\ http' = Response("create_channel", u, s, "200", 1)
    /\ UNCHANGED <<members, owner, bans, messages, role_mask, jn, watch, wire>>
    /\ UNCHANGED <<ws_sessions, channel_subs, presence, typingVars>>
    /\ UNCHANGED <<tokenVars, sfVars, connVars, voiceVars, sfuVars>>

\* Gateway connections are opened, then channels are created on s1, where
\* u1 holds MANAGE_CHANNELS and u2 (a member) does not, and on s2, where
\* nobody is a member.
InitChannels ==
    /\ InitToken /\ InitSnowflake /\ InitSessions /\ InitSfuServer
    /\ members = [s \in Servers |-> IF s = "s1" THEN {"u1", "u2"} ELSE {}]
    /\ owner = [s \in Servers |-> "u2"]
    /\ bans = [s \in Servers |-> {}]
    /\ messages = {}
    /\ role_mask = [x \in Servers \X Users |->
                       IF x = <<"s1", "u1">> THEN MANAGE_CHANNELS ELSE 0]
    /\ new_channels = {}
    /\ mode = "standalone"
    /\ watch = {"ChannelCreate"}
    /\ budget = MaxOps

NextChannels ==
    \/ \E k \in Conns : budget = MaxOps /\ (Identify(k) \/ Subscribe(k) \/ Activate(k))
    \/ \E u \in Users, s \in Servers : CreateChannel(u, s)

SpecChannels == InitChannels /\ [][NextChannels]_vars

\* ------------------------------------------------------------------------
\* Typing indicators (presence.rs)

\* Seconds after which a typing indicator expires (presence.rs:58, 80).
TYPING_TTL_SECS == 8

\* Period of cleanup_loop in seconds (presence.rs:77).
TYPING_CLEANUP_SECS == 10

\* Last second of the clock while typing indicators are followed.
MaxTypingSecs == 10

\* The retain predicate written with >= instead of >.
FreshMutInclusive(instant) == instant >= clock - TYPING_TTL_SECS * TicksPerSec

\* presence.rs:58-61 and 80-82: cutoff = Instant::now() - 8 s and the entry is
\* kept when *instant > cutoff.
Fresh(instant) == instant > clock - TYPING_TTL_SECS * TicksPerSec

\* entry.retain(|_, instant| *instant > cutoff)
RetainFresh(map) == {e \in map : Fresh(e.instant)}

\* presence.rs:49-54: the channel entry is created when absent and the user's
\* Instant is inserted, replacing an earlier one.
SetTyping(c, u) ==
    /\ typing' = [typing EXCEPT ![c] =
                     [present |-> TRUE,
                      map |-> {e \in @.map : e.user # u} \cup {[user |-> u, instant |-> clock]}]]
    /\ LET old == {e \in last_typed : e.ch = c /\ e.user = u}
       IN  last_typed' = (last_typed \ old) \cup
               {[ch |-> c, user |-> u, instant |-> clock,
                 first |-> IF old = {} THEN clock ELSE (CHOOSE e \in old : TRUE).first]}
    /\ http' = Response("set_typing", None, c, None, 0)
    /\ UNCHANGED <<ws_sessions, channel_subs, presence, mailbox>>
    /\ UNCHANGED <<tokenVars, sfVars, dbVars, jn, obsVars, connVars, voiceVars, sfuVars>>

\* presence.rs:57-65: the expired entries of the channel are dropped from the
\* map and the remaining keys are returned; no entry gives the empty list.
GetTyping(c) ==
    /\ IF typing[c].present
       THEN /\ typing' = [typing EXCEPT ![c].map = RetainFresh(@)]
            /\ http' = Response("get_typing", None, c,
                                {e.user : e \in RetainFresh(typing[c].map)}, 0)
       ELSE /\ http' = Response("get_typing", None, c, {}, 0)
            /\ UNCHANGED typing
    /\ UNCHANGED <<jn, obsVars, last_typed>>
    /\ UNCHANGED <<ws_sessions, channel_subs, presence, mailbox>>
    /\ UNCHANGED <<tokenVars, sfVars, dbVars, connVars, voiceVars, sfuVars>>

\* presence.rs:76-87: every 10 s the expired entries of every channel are
\* dropped and the channels left empty are removed.
CleanupLoop ==
    /\ clock % (TYPING_CLEANUP_SECS * TicksPerSec) = 0
    /\ typing' = [c \in Channels |->
                     [present |-> typing[c].present /\ RetainFresh(typing[c].map) # {},
                      map |-> RetainFresh(typing[c].map)]]
    /\ UNCHANGED <<ws_sessions, channel_subs, presence, mailbox, last_typed>>
    /\ UNCHANGED <<tokenVars, sfVars, dbVars, restVars, obsVars, connVars, voiceVars, sfuVars>>

\* Time passes for the presence manager; http holds the answer of the last
\* call made at the present instant.
TickTyping ==
    /\ clock < MaxTypingSecs * TicksPerSec
    /\ clock' = clock + 1
    /\ http' = NoHttp
    /\ UNCHANGED <<mode, hub_url_empty, hub, hub_public_key, token_cache, last_validate>>
    /\ UNCHANGED <<jn, obsVars, regVars>>
    /\ UNCHANGED <<sfVars, dbVars, connVars, voiceVars, sfuVars>>

NextTyping ==
    \/ \E u \in Users : SetTyping("c1", u)
    \/ \E c \in Channels : GetTyping(c)
    \/ CleanupLoop
    \/ TickTyping

SpecTyping == InitChannels /\ [][NextTyping]_vars

\* ------------------------------------------------------------------------
\* Message text (chat.rs)
\* ------------------------------------------------------------------------

\* Characters of a message content: a letter, a space, '\n', '\t', U+0000,
\* '\r' and U+00A0 (no-break space).
ContentChars == {"a", "sp", "nl", "tab", "nul", "cr", "nbsp"}

\* char::is_control: the characters of category Cc.
IsControl(c) == c \in {"nl", "tab", "nul", "cr"}

\* char::is_whitespace: the characters with the White_Space property.
IsWhitespace(c) == c \in {"sp", "nl", "tab", "cr", "nbsp"}

\* str::trim_start.
RECURSIVE TrimStart(_)
TrimStart(s) ==
    IF s # <<>> /\ IsWhitespace(Head(s)) THEN TrimStart(Tail(s)) ELSE s

\* str::trim_end.
RECURSIVE TrimEnd(_)
TrimEnd(s) ==
    IF s # <<>> /\ IsWhitespace(s[Len(s)]) THEN TrimEnd(SubSeq(s, 1, Len(s) - 1)) ELSE s

\* str::trim.
Trim(s) == TrimEnd(TrimStart(s))

\* chat.rs:84, the filter closure: the characters that are kept.
Kept(c) == ~IsControl(c) \/ c = "nl" \/ c = "tab"

\* Faulty variant of sanitize_content: the content is trimmed before the
\* control characters are filtered out.
SanitizeContentMutTrimFirst(content) == SelectSeq(Trim(content), Kept)

\* sanitize_content, chat.rs:81-88.
SanitizeContent(content) == Trim(SelectSeq(content, Kept))

\* Hexadecimal digits.
HexDigits == {"0", "1"}

\* Length of the text of an id, in characters.
UuidLen == 2

\* Uuid::parse_str(&id).is_ok(): the text is an id of full length made of
\* hexadecimal digits.
UuidParses(id) == Len(id) = UuidLen /\ \A i \in 1..Len(id) : id[i] \in HexDigits

\* chars.by_ref().take_while(|c| *c != '>'): the index of the first '>' at
\* or after from (which take_while consumes), Len(s) + 1 when there is none.
RECURSIVE EndOfId(_, _)
EndOfId(s, from) ==
    IF from > Len(s) \/ s[from] = ">" THEN from ELSE EndOfId(s, from + 1)

\* MentionType::User(uuid), Role(uuid), Channel(uuid), chat.rs:73-78.
Mention(kind, id) == [kind |-> kind, id |-> id]

\* The loop of parse_mentions, chat.rs:42-68, from the character at index i
\* with the mentions found so far.
RECURSIVE ParseFrom(_, _, _)
ParseFrom(s, i, mentions) ==
    IF i > Len(s) THEN mentions
    ELSE IF s[i] # "<" \/ i = Len(s) \/ s[i + 1] \notin {"@", "#"}
         THEN ParseFrom(s, i + 1, mentions)
         ELSE LET role == s[i + 1] = "@" /\ i + 2 <= Len(s) /\ s[i + 2] = "&"
                  kind == IF s[i + 1] = "#" THEN "Channel"
                          ELSE IF role THEN "Role" ELSE "User"
                  from == IF role THEN i + 3 ELSE i + 2
                  end == EndOfId(s, from)
                  id == SubSeq(s, from, end - 1)
              IN  ParseFrom(s, end + 1,
                            IF UuidParses(id) THEN Append(mentions, Mention(kind, id))
                            ELSE mentions)

\* parse_mentions, chat.rs:38-71.
ParseMentions(content) == ParseFrom(content, 1, <<>>)

\* The text of an id.
IdText == [i \in 1..UuidLen |-> IF i = UuidLen THEN "1" ELSE "0"]

\* Fragments message contents with mentions are made of: the three prefixes,
\* an id, a text that is no id, the terminator and a letter.
Pieces ==
    {<<"<", "@">>, <<"<", "@", "&">>, <<"<", "#">>, IdText, <<"0">>, <<">">>, <<"x">>}

\* The contents made of at most n fragments.
RECURSIVE Texts(_)
Texts(n) ==
    IF n = 0 THEN {<<>>}
    ELSE Texts(n - 1) \cup {t \o p : t \in Texts(n - 1), p \in Pieces}

\* The contents of at most MaxLen characters.
Contents == UNION {[1..n -> ContentChars] : n \in 0..MaxLen}

\* A call of sanitize_content, on the given content or on the result of the
\* previous call; the response records the argument and the result.
SanitizeCall ==
    /\ budget > 0
    /\ budget' = budget - 1
    /\ http.op \in {"content", "sanitize_content"}
    /\ LET content == IF http.op = "content" THEN http.arg ELSE http.status
       IN  http' = Response("sanitize_content", None, content, SanitizeContent(content), 0)
    /\ UNCHANGED <<jn, watch, wire, tokenVars, sfVars, dbVars, connVars, regVars, voiceVars, sfuVars>>

\* A call of parse_mentions on the given content.
ParseMentionsCall ==
    /\ budget > 0
    /\ budget' = budget - 1
    /\ http.op = "content"
    /\ http' = Response("parse_mentions", None, http.arg, ParseMentions(http.arg), 0)
    /\ UNCHANGED <<jn, watch, wire, tokenVars, sfVars, dbVars, connVars, regVars, voiceVars, sfuVars>>

\* A message content is given; the functions of chat.rs are applied to it.
InitChat ==
    /\ InitToken /\ InitSnowflake /\ InitDb /\ InitSfuServer /\ InitConnections
    /\ \E content \in Contents \cup Texts(MaxPieces) :
          http = Response("content", None, content, None, 0)
    /\ mode = "standalone"
    /\ watch = {}
    /\ budget = 2

NextChat == SanitizeCall \/ ParseMentionsCall

SpecChat == InitChat /\ [][NextChat]_vars

\* ------------------------------------------------------------------------
\* Claims about the gateway (SpecGateway, SpecVoice, SpecSfu)
\* ------------------------------------------------------------------------

\* No registry refers to user u.
Absent(u) ==
    /\ ws_sessions[u] = None
    /\ \A c \in Channels : ~InSeq(channel_subs[c], u)
    /\ \A c \in Channels : ~InSeq(voice_states[c].parts, u)
    /\ \A c \in Channels : u \notin sfu_channels[c].users

\* handle_ws of connection k has returned after running its cleanup.
CleanedUp(k) == pc[k] = "closed" /\ conn_user[k] # None

InCleanup(k) ==
    pc[k] \in {"cl_session", "cl_sfu", "cl_voice", "cl_unsub", "cl_offline", "blocked"}

\* C2: cleanup is unconditional: a connection whose reader or forwarder has
\* ended can always take its next cleanup step until handle_ws returns, also
\* when it is the last participant of an SFU channel.
C2_CleanupRuns ==
    \A k \in Conns : InCleanup(k) => ENABLED CleanupStep(k)

\* C3: when a disconnected connection's handler can do nothing more, it has
\* made exactly one offline broadcast_to_channel call per channel of its
\* retained list, in order, and none for any other channel.
C3_OfflineOncePerChannel ==
    \A k \in Conns :
        (Departed(k) /\ ~ENABLED CleanupStep(k)) =>
            offline_calls[k] = subscribed_channels[k]

\* C4: no PresenceUpdate(offline) about user u is ever enqueued into the
\* mailbox of a connection of u.
C4_NoOwnOffline ==
    \A k \in Conns : \A i \in 1..Len(mailbox[k]) :
        ~(/\ mailbox[k][i].type = "PresenceUpdate"
          /\ mailbox[k][i].val = "offline"
          /\ mailbox[k][i].user = conn_user[k])

\* C5: each user is in the voice participant list of at most one channel.
C5_AtMostOneVoiceChannel ==
    \A u \in Users :
        Cardinality({c \in Channels : InSeq(voice_states[c].parts, u)}) <= 1

\* C6: when user b's peer connection carries a track of user a of the same
\* SFU channel, and a's current peer connection is open and has delivered
\* its media, then the track a's inbound RTP is copied into (a's my_track)
\* is among the tracks of b's peer connection.
C6_ReconnectPreserves ==
    \A c \in Channels : \A a \in sfu_channels[c].users : \A b \in sfu_channels[c].users :
        LET sa == sfu_user[<<c, a>>]
            sb == sfu_user[<<c, b>>]
        IN  (/\ a # b
             /\ sb.pc \in pc_open
             /\ \E t \in pc_tracks[sb.pc] : tracks[t].owner = a
             /\ sa.pc \in pc_open
             /\ sa.my_track # 0)
            => sa.my_track \in pc_tracks[sb.pc]

\* ------------------------------------------------------------------------
\* Claims about the snowflake generator (SpecSnowflake)
\* ------------------------------------------------------------------------

\* C7: every id returned by next_id() is strictly greater than the id
\* returned by the previous call on the same generator.
C7_StrictlyIncreasing == sf_calls >= 2 => sf_last > sf_prev

\* C8: no call of next_id() returns an id an earlier call returned (here: the
\* id the first call returned).
C8_NoDuplicate == sf_calls >= 2 => sf_last # sf_first

\* ------------------------------------------------------------------------
\* Claims about the token verifier (SpecToken)
\* ------------------------------------------------------------------------

TtlTicks == TOKEN_CACHE_TTL_SECS * TicksPerSec

Returned == last_validate.token # None

\* C9 as stated: every call made up to 60 s (inclusive) after the entry was
\* written is answered from the cache, without a signature check.
C9_CachedUpTo60 ==
    (Returned /\ last_validate.elapsed >= 0 /\ last_validate.elapsed <= TtlTicks)
        => (last_validate.cached /\ ~last_validate.verified)

\* C9 as amended: a call made less than 60 s after the entry was written is
\* answered from the cache with the cached identity and without a signature
\* check; a call made 60 s or more after it evicts the entry, verifies the
\* token afresh and leaves an entry (written now) exactly if that succeeded.
C9_CacheTtl ==
    Returned =>
        /\ (last_validate.elapsed >= 0 /\ last_validate.elapsed < TtlTicks)
              => /\ last_validate.cached
                 /\ ~last_validate.verified
                 /\ last_validate.outcome = "Ok"
                 /\ last_validate.user = TokenUser(last_validate.token)
                 /\ token_cache[last_validate.token].present
                 /\ clock - token_cache[last_validate.token].at = last_validate.elapsed
        /\ last_validate.elapsed >= TtlTicks
              => /\ ~last_validate.cached
                 /\ last_validate.verified
                 /\ token_cache[last_validate.token].present = (last_validate.outcome = "Ok")
                 /\ token_cache[last_validate.token].present
                       => token_cache[last_validate.token].at = clock

\* A call made exactly 60 s after the entry was written has verified the
\* token afresh and written a new entry.
C9_Witness ==
    /\ Returned
    /\ last_validate.elapsed = TtlTicks
    /\ last_validate.verified
    /\ ~last_validate.cached
    /\ token_cache[last_validate.token].present
    /\ token_cache[last_validate.token].at = clock

\* C10: in Community mode, a call made while the hub's key is not cached and
\* the hub request cannot succeed fails with Internal, not Unauthorized, and
\* leaves the cached key absent and the token cache as it was.
C10_HubDown ==
    [][(/\ mode = "community"
        /\ hub_public_key = None
        /\ (hub # "ok" \/ hub_url_empty)
        /\ last_validate' # last_validate
        /\ last_validate'.token # None)
       => (/\ last_validate'.outcome = "Internal"
           /\ hub_public_key' = None
           /\ token_cache' = token_cache)]_vars

\* A validly signed token has just been refused with Internal because the
\* hub answered with an error status and no key is cached.
C10_Witness ==
    /\ mode = "community"
    /\ hub_public_key = None
    /\ hub = "non2xx"
    /\ last_validate.token = "tok_u1"
    /\ last_validate.outcome = "Internal"
    /\ last_validate.fetched

\* The token is validly signed by the hub, carries a UUID subject and has
\* not expired.
ValidNow(t) == TokenSigOk(t) /\ TokenSubOk(t) /\ TokenExp(t) >= NowSecs

\* C11: in Community mode, a call made while the hub's key is cached issues
\* no request to the hub and leaves the cached key as it is, and it accepts
\* every validly signed, unexpired token with the token's identity, whatever
\* the hub does at that moment.
C11_KeyCachedNoRequest ==
    [][(/\ mode = "community"
        /\ hub_public_key # None
        /\ last_validate' # last_validate
        /\ last_validate'.token # None)
       => (/\ ~last_validate'.fetched
           /\ hub_public_key' = hub_public_key
           /\ ValidNow(last_validate'.token)
                 => /\ last_validate'.outcome = "Ok"
                    /\ last_validate'.user = TokenUser(last_validate'.token))]_vars

\* The key was fetched while the hub answered; the hub is now unreachable
\* and a valid token whose cache entry had expired has just been verified
\* afresh with the cached key and accepted.
C11_Witness ==
    /\ mode = "community"
    /\ hub = "unreachable"
    /\ hub_public_key = HUB_PEM
    /\ last_validate.token = "tok_u1"
    /\ last_validate.outcome = "Ok"
    /\ last_validate.verified
    /\ ~last_validate.fetched
    /\ last_validate.elapsed >= TtlTicks

\* ------------------------------------------------------------------------
\* Claims about mailboxes, messages and membership
\* ------------------------------------------------------------------------

\* C12: when the mailbox of an ACTIVE connection holds 256 undelivered
\* events, a further step leaves these events in it, in order (a fan-out
\* drops the new event), or takes the oldest of them out to the socket.
\* C13: send_message stores a message (and fans it out) only for an author
\* who is a member of the server of the target channel: every message a step
\* adds to the store has such an author.
C13_AuthorIsMember ==
    [][\A m \in messages' \ messages : m.author \in members[ServerOf(m.ch)]]_vars

\* C14: in every state, every user in a channel's subscriber list is a
\* member of that channel's server.
C14_SubscribersAreMembers ==
    \A c \in Channels : \A i \in 1..Len(channel_subs[c]) :
        channel_subs[c][i] \in members[ServerOf(c)]

\* C15: while a ban (server, user) exists, no step makes that user a member
\* of that server.
C15_BannedStaysOut ==
    [][\A s \in Servers : \A u \in bans[s] :
          u \notin members[s] => u \notin members'[s]]_vars

\* The step is a whole request of handler op, answered in http'.
Answered(op) == budget' < budget /\ jn' = jn /\ http'.op = op

\* The mask holds the bit of weight w (a power of two).
BitSet(mask, w) == (mask \div w) % 2 = 1

\* C16: delete_message on a stored message by a caller who is neither its
\* author nor holds MANAGE_MESSAGES or ADMINISTRATOR on the channel's server
\* answers Forbidden, keeps the message and enqueues nothing; by the author or
\* a permitted caller it answers 204, removes the message and makes one
\* broadcast of MessageDelete with is_deleted = true: the mailbox of every
\* connection grows by MessageDelete events only, and the session of every
\* subscriber of the channel gets at least one.
C16_DeleteMessage ==
    [][Answered("delete_message") =>
         LET u    == http'.user
             chan == http'.arg[1]
             mid  == http'.arg[2]
             held == GetPermissions(u, ServerOf(chan))
             ev   == [type |-> "MessageDelete", user |-> None, ch |-> chan,
                      val |-> "is_deleted", id |-> mid]
         IN  \A m \in messages : (m.id = mid /\ m.ch = chan) =>
               IF m.author = u \/ BitSet(held, MANAGE_MESSAGES) \/ BitSet(held, ADMINISTRATOR)
               THEN /\ http'.status = "204"
                    /\ http'.casts = 1
                    /\ m \notin messages'
                    /\ \A k \in Conns :
                         \E n \in 0..Len(channel_subs[chan]) :
                            /\ mailbox'[k] = mailbox[k] \o [i \in 1..n |-> ev]
                            /\ (Live(k) /\ \E i \in 1..Len(channel_subs[chan]) :
                                              ws_sessions[channel_subs[chan][i]] = k) => n >= 1
               ELSE /\ http'.status = "Forbidden"
                    /\ http'.casts = 0
                    /\ messages' = messages
                    /\ mailbox' = mailbox]_vars

\* A caller without the permission was refused and the message is still
\* stored.
C16_Witness ==
    /\ http.op = "delete_message"
    /\ http.status = "Forbidden"
    /\ \E m \in messages : m.id = http.arg[2] /\ m.ch = http.arg[1] /\ m.author # http.user

\* C17: has(b) on a mask P is true exactly when P holds ADMINISTRATOR or
\* holds b, and check_permission answers Forbidden exactly when has is false
\* on the caller's effective permissions.
C17_PermissionAlgebra ==
    /\ http.op = "has" =>
          (http.status = "true" <=>
              (BitSet(http.arg[1], ADMINISTRATOR) \/ BitSet(http.arg[1], http.arg[2])))
    /\ http.op = "check_permission" =>
          (http.status = "Forbidden" <=>
              ~(\/ BitSet(GetPermissions(http.user, http.arg[1]), ADMINISTRATOR)
                \/ BitSet(GetPermissions(http.user, http.arg[1]), http.arg[2])))

\* has answered true through ADMINISTRATOR alone, and check_permission let
\* an administrator through.
C17_Witness ==
    \/ /\ http.op = "has" /\ http.status = "true"
       /\ ~BitSet(http.arg[1], http.arg[2])
       /\ http.arg[2] # ADMINISTRATOR
    \/ /\ http.op = "check_permission" /\ http.status = "Ok"
       /\ ~BitSet(GetPermissions(http.user, http.arg[1]), http.arg[2])

\* C18: the ownership of a server passes from the sentinel to one user and
\* is never changed again: no step changes the owner of a server that a real
\* user owns.
C18_ClaimedOnce ==
    [][\A s \in Servers : owner[s] # SYSTEM_OWNER => owner'[s] = owner[s]]_vars

C20_RejectedLeavesNothing ==
    [][\A k \in Conns : (pc[k] = "unauth" /\ pc'[k] = "closed") =>
          /\ close_reason'[k].code = 1000
          /\ close_reason'[k].reason \in
                {"Invalid token", "Expected Identify", "No message received"}
          /\ conn_user'[k] = None
          /\ UNCHANGED <<ws_sessions, channel_subs, presence, typingVars, mailbox>>]_vars

\* A connection was refused for its token while another user's session is
\* registered.
C20_Witness ==
    \E k \in Conns :
        /\ pc[k] = "closed"
        /\ conn_user[k] = None
        /\ close_reason[k].reason = "Invalid token"
        /\ \E u \in Users : ws_sessions[u] # None

\* C21: a socket in UNAUTH does not stay there forever: also without a
\* first frame it is eventually closed by the server.
C21_IdentifyTimeout == \A k \in Conns : <>(pc[k] # "unauth")

\* C22: when send_message answers with success, the persisted message has
\* been enqueued as MessageCreate exactly once into the mailbox of every user
\* who is in the channel's subscriber list and has a session.
C22_FanOutBeforeResponse ==
    [][(Answered("send_message") /\ http'.status = "200") =>
         \E m \in messages' \ messages :
            /\ m.ch = http'.arg /\ m.author = http'.user
            /\ \A u \in Users :
                 ((\E i \in 1..Len(channel_subs[m.ch]) : channel_subs[m.ch][i] = u)
                     /\ ws_sessions[u] # None) =>
                   mailbox'[ws_sessions[u]] =
                      Append(mailbox[ws_sessions[u]],
                             [type |-> "MessageCreate", user |-> m.author, ch |-> m.ch,
                              val |-> "created", id |-> m.id])]_vars

\* Sequence a is an initial part of sequence b.
IsPrefix(a, b) == Len(a) <= Len(b) /\ SubSeq(b, 1, Len(a)) = a

\* The receiver of the mailbox has not lagged.
NoLag(q) == q = <<>> \/ Head(q).type # "Lagged"

\* C23: as long as a mailbox does not overflow, the frames written to the
\* socket followed by the events still in the mailbox are the events in the
\* order they were enqueued: every step only extends that sequence at its
\* end, so each event is written once, in its turn.
C23_MailboxFifo ==
    [][\A k \in Conns :
          (NoLag(mailbox[k]) /\ NoLag(mailbox'[k])) =>
             IsPrefix(wire[k] \o mailbox[k], wire'[k] \o mailbox'[k])]_vars

\* Two different events have been written while a third is waiting.
C23_Witness ==
    \E k \in Conns :
        /\ Len(wire[k]) >= 2
        /\ wire[k][1].id # wire[k][2].id
        /\ mailbox[k] # <<>>

\* C24: a WebRTCSignal frame whose to_user_id is not the zero id changes no
\* SFU state, no registry, no voice state and no mailbox, and leaves the
\* connection ACTIVE; a frame reaches the SFU only with the zero id and the
\* type offer or ice.
C24_PeerToPeerRejected ==
    [][/\ \A k \in Conns, to \in Users, kind \in {"offer", "ice", "answer"},
            chan \in OfferChannels :
            SignalFrame(k, to, kind, chan) =>
               (pc'[k] = "active" /\ UNCHANGED <<sfuVars, regVars, voiceVars, offer_ch>>)
       /\ \A to \in Users \cup {NIL}, kind \in {"offer", "ice", "answer"} :
            (Dispatch(to, kind) \in {"offer", "ice"}) <=>
               (to = NIL /\ kind \in {"offer", "ice"})]_vars

\* k1 has sent its frames, all addressed to users, while the SFU holds a
\* channel with the user of k2 in it.
C24_Witness ==
    /\ offers["k1"] = MaxOffers
    /\ pc["k1"] = "active"
    /\ \E chan \in OfferChannels :
          sfu_channels[chan].present /\ sfu_channels[chan].users # {}

\* The local tracks of the users of channel chan other than u that exist.
ExistingTracks(chan, u) ==
    {sfu_user[<<chan, v>>].my_track : v \in sfu_channels[chan].users \ {u}} \ {0}

\* C25: when the first offer of a user for a channel is handled (the join
\* step that sends the answer), the user's new peer connection carries
\* exactly the local tracks of the other users of the channel that exist at
\* that moment, none of them the user's own, the id of each is recorded in
\* the user's subscribed_tracks, and no other user's peer connection, local
\* track or subscribed_tracks changes.
C25_FirstJoinSubscribes ==
    [][\A k \in Conns :
         (offer_ch[k] # None /\ offer_ch'[k] = None /\ next_pc' # next_pc
            /\ mailbox' # mailbox)
         => LET u == conn_user[k]
                chan == offer_ch[k]
                p == next_pc
            IN  /\ pc_tracks'[p] = ExistingTracks(chan, u)
                /\ \A t \in pc_tracks'[p] : tracks[t].owner # u
                /\ \A t \in ExistingTracks(chan, u) :
                      InSeq(sfu_user'[<<chan, u>>].subscribed, TrackLabel(t))
                /\ Len(sfu_user'[<<chan, u>>].subscribed)
                      = Cardinality(ExistingTracks(chan, u))
                /\ \A v \in Users \ {u} : \A c \in OfferChannels :
                      sfu_user'[<<c, v>>] = sfu_user[<<c, v>>]
                /\ \A q \in pc_open : q \in pc_open' /\ pc_tracks'[q] = pc_tracks[q]
                /\ tracks' = tracks]_vars

\* C28: renegotiation is idempotent.  For every user of an SFU channel whose
\* peer connection is open, an offer handled now would add no track that
\* the peer connection already carries, and the user's subscribed_tracks
\* holds no track id twice.
C28_RenegotiationIdempotent ==
    \A c \in OfferChannels : \A u \in sfu_channels[c].users :
        LET su == sfu_user[<<c, u>>]
        IN  /\ su.pc \in pc_open
               => SubscribeNew(c, Others(c, u), {}, su.subscribed).added
                     \cap pc_tracks[su.pc] = {}
            /\ \A i \in 1..Len(su.subscribed) : \A j \in 1..Len(su.subscribed) :
                  i # j => su.subscribed[i] # su.subscribed[j]

\* C29: when an offer of user u for channel c is answered (first join or
\* renegotiation), u's peer connection carries the local track of every
\* other user of the channel whose track existed when the offer was handled,
\* whatever ids the tracks carry.
C29_SubscribedToEveryTrack ==
    [][\A c \in OfferChannels : \A u \in Users :
         (/\ ws_sessions[u] # None
          /\ mailbox'[ws_sessions[u]] = Append(mailbox[ws_sessions[u]], Answer(c, u)))
         => /\ sfu_user'[<<c, u>>].pc \in PcIds
            /\ ExistingTracks(c, u) \subseteq pc_tracks'[sfu_user'[<<c, u>>].pc]]_vars

\* C30: a voice_leave of user u for channel c leaves u without an SfuUser
\* in c and with its peer connection closed; and whenever no offer is being
\* handled and no connection has its leave_channel calls still to make, no
\* channel in the SFU map has an empty user map.
C30_LeaveRemoves ==
    /\ [][\A r \in Reqs :
             (vj'[r] # vj[r] /\ vj'[r].kind = "leave")
             => LET c == vj'[r].ch
                    u == vj'[r].user
                IN  /\ u \notin sfu_channels'[c].users
                    /\ sfu_user'[<<c, u>>] = NoSfuUser
                    /\ sfu_user[<<c, u>>].pc \notin pc_open']_vars
    /\ []((\A k \in Conns : offer_ch[k] = None /\ pc[k] \notin {"cl_session", "cl_sfu"})
            => \A c \in Channels : sfu_channels[c].present => sfu_channels[c].users # {})

\* The newlines and tabs of s, in order.
Lines(s) == SelectSeq(s, LAMBDA c : c \in {"nl", "tab"})

\* The part of s from its first to its last character that is neither a
\* control character nor whitespace.
Core(s) ==
    LET solid == {i \in 1..Len(s) : ~IsControl(s[i]) /\ ~IsWhitespace(s[i])}
    IN  IF solid = {} THEN <<>>
        ELSE SubSeq(s, CHOOSE i \in solid : \A j \in solid : i <= j,
                       CHOOSE i \in solid : \A j \in solid : j <= i)

\* C26: the result of sanitize_content is left as it is by sanitize_content,
\* holds no control character other than newline and tab, has no whitespace
\* at either end, and keeps the newlines and tabs that lie between the first
\* and the last visible character of the content.
C26_SanitizeIdempotent ==
    http.op = "sanitize_content" =>
        LET r == http.status
        IN  /\ SanitizeContent(r) = r
            /\ \A i \in 1..Len(r) : IsControl(r[i]) => r[i] \in {"nl", "tab"}
            /\ r # <<>> => ~IsWhitespace(r[1]) /\ ~IsWhitespace(r[Len(r)])
            /\ Lines(r) = Lines(Core(http.arg))

\* A content with a control character, whitespace at an end and an interior
\* newline has been sanitized.
C26_Witness ==
    /\ http.op = "sanitize_content"
    /\ \E i \in 1..Len(http.arg) : http.arg[i] = "nul"
    /\ IsWhitespace(http.arg[Len(http.arg)])
    /\ Lines(http.status) = <<"nl">>

\* The well-formed mention that starts at index i of s, as a sequence of
\* one mention, or the empty sequence: a prefix, the text of an id and '>'.
MentionAt(s, i) ==
    LET at(prefix, kind) ==
            LET from == i + Len(prefix)
            IN  IF /\ from + UuidLen <= Len(s)
                   /\ SubSeq(s, i, from - 1) = prefix
                   /\ UuidParses(SubSeq(s, from, from + UuidLen - 1))
                   /\ s[from + UuidLen] = ">"
                THEN <<Mention(kind, SubSeq(s, from, from + UuidLen - 1))>>
                ELSE <<>>
    IN  at(<<"<", "@">>, "User") \o at(<<"<", "@", "&">>, "Role") \o at(<<"<", "#">>, "Channel")

\* The well-formed mentions of s from index i on, in order of appearance.
RECURSIVE WellFormedFrom(_, _)
WellFormedFrom(s, i) ==
    IF i > Len(s) THEN <<>> ELSE MentionAt(s, i) \o WellFormedFrom(s, i + 1)

\* C27: parse_mentions returns exactly the well-formed mentions of the
\* content, <@id> as User, <@&id> as Role and <#id> as Channel, in order of
\* appearance (the empty list when there is none), also when a well-formed
\* mention comes right after an unterminated prefix.
C27_ParseMentionsExact ==
    http.op = "parse_mentions" => http.status = WellFormedFrom(http.arg, 1)

\* C31: when the Ready frame of a connection has been sent, the presence of
\* its user has already been set to online (and the online PresenceUpdate,
\* which the code broadcasts after setting presence, has gone out).
C31_ReadyAfterOnline ==
    \A k \in Conns : pc[k] = "ready" => presence[conn_user[k]] = "online"

\* C32: when create_channel succeeds, a ChannelCreate event for the new
\* channel is enqueued into the mailbox of every member of the server who
\* has a gateway session.
C32_ChannelCreateFanOut ==
    [][(Answered("create_channel") /\ http'.status = "200")
       => \E row \in new_channels' \ new_channels :
             \A u \in members[row.server] :
                 ws_sessions[u] # None
                    => mailbox'[ws_sessions[u]]
                          = Append(mailbox[ws_sessions[u]],
                                   ChannelCreate(row.id, row.server))]_vars

\* C33: get_typing(c) returns exactly the users whose most recent
\* set_typing(c, u) is less than 8 s old at the time of the call.
C33_TypingExpiry ==
    http.op = "get_typing"
       => http.status = {e.user : e \in {x \in last_typed :
                              /\ x.ch = http.arg
                              /\ clock - x.instant < TYPING_TTL_SECS * TicksPerSec}}

\* get_typing returned a user whose first set_typing is 8 s old or older
\* (it was refreshed) and left out a user whose last one is exactly 8 s old.
C33_Witness ==
    /\ http.op = "get_typing"
    /\ \E a, b \in last_typed :
          /\ a.ch = http.arg /\ b.ch = http.arg
          /\ a.user \in http.status
          /\ clock - a.first >= TYPING_TTL_SECS * TicksPerSec
          /\ b.user \notin http.status
          /\ clock - b.instant = TYPING_TTL_SECS * TicksPerSec

\* C34: validate_token_federated never returns Ok for a token whose exp
\* time has passed, also inside the 60 s cache window.
C34_ExpiredRejected ==
    last_validate.outcome = "Ok" => TokenExp(last_validate.token) >= NowSecs

\* C35: for every ACTIVE connection the session map holds, for its user, the
\* sender of this connection's mailbox, and the user is in the subscriber
\* list of every channel the connection retained.
C35_ActiveRegistered ==
    \A k \in Conns :
        pc[k] = "active" =>
            /\ ws_sessions[conn_user[k]] = k
            /\ \A i \in 1..Len(subscribed_channels[k]) :
                  InSeq(channel_subs[subscribed_channels[k][i]], conn_user[k])

\* C36: a voice_join never panics at its push (the participant-list entry it
\* created is still present), and when it has pushed, the joining user is in
\* the channel's participant list exactly once.
C36_JoinPushSafe ==
    [][\A r \in Reqs :
          /\ vj'[r].pc # "panicked"
          /\ (vj[r].pc = "push" /\ vj'[r].pc = "done")
                => Len(SelectSeq(voice_states'[vj[r].ch].parts,
                                 LAMBDA p : p = vj[r].user)) = 1]_vars

\* C37: when the first offer of a user for a channel fails (the join step
\* ends without an answer), the SFU registry holds no SfuUser for the user,
\* the user is not in the channel, and no channel entry without users exists.
C37_FailedOfferLeavesNothing ==
    [][\A k \in Conns :
         (offer_ch[k] # None /\ offer_ch'[k] = None /\ next_pc' # next_pc
            /\ mailbox' = mailbox)
         => LET u == conn_user[k]
                chan == offer_ch[k]
            IN  /\ u \notin sfu_channels'[chan].users
                /\ sfu_user'[<<chan, u>>] = NoSfuUser
                /\ sfu_channels'[chan].present => sfu_channels'[chan].users # {}]_vars

\* C38: every SfuUser that handle_offer inserts is reachable through the SFU
\* channel map: after the join step the channel has an entry in the map, the
\* user is in it, and its SfuUser holds the peer connection just created.
C38_InsertedIsReachable ==
    [][\A k \in Conns :
         (offer_ch[k] # None /\ offer_ch'[k] = None /\ next_pc' # next_pc)
         => LET u == conn_user[k]
                chan == offer_ch[k]
            IN  /\ sfu_channels'[chan].present
                /\ u \in sfu_channels'[chan].users
                /\ sfu_user'[<<chan, u>>].pc = next_pc]_vars

\* C39: a user's presence is online whenever at least one of its connections
\* is ACTIVE, and offline once all of its connections have finished cleanup.
C39_PresenceFollowsConnections ==
    \A u \in Users :
        LET mine == {k \in Conns : conn_user[k] = u}
        IN  /\ (\E k \in mine : pc[k] = "active") => presence[u] = "online"
            /\ (mine # {} /\ \A k \in mine : pc[k] = "closed") => presence[u] = "offline"

\* C40: every message send_message has persisted satisfies validate_message:
\* its content is not empty and at most MAX_MESSAGE_LENGTH long.
C40_StoredAreValid ==
    \A m \in messages : ValidateMessage(m.len) = "Ok"

C12_FullMailboxKeepsEarlier ==
    [][\A k \in Conns :
         (pc[k] = "active" /\ Len(mailbox[k]) = MAILBOX_CAPACITY)
            => (mailbox'[k] = mailbox[k] \/ mailbox'[k] = Tail(mailbox[k]))]_vars

====
